---- MODULE Spec2Model ----
(***************************************************************************)
(* Model of the Spotify track logger (src/src/spotify_logger): the vault,  *)
(* the per-user sheet structure, the registry, one synchronization pass    *)
(* (sync_single_user) and the batch loop (sync_all_enabled_users).         *)
(*                                                                         *)
(* Cell contents, ids, keys and tokens are strings; str()/int() and the    *)
(* ISO-8601 conversions are modelled by formatting with ToString and by    *)
(* parsing as the inverse of formatting over a bounded domain.             *)
(***************************************************************************)
EXTENDS Integers, Sequences, FiniteSets, TLC

VARIABLES
    registry,   \* the registry worksheet: [headers, rows]
    store,      \* tenant -> the user's spreadsheet
    upstream,   \* tenant -> the provider's recently-played list, newest first
    provider,   \* tenant -> the provider's account: valid refresh token, rotation
    pass,       \* process -> the frame of its running sync_single_user call
    batch,      \* the frame of sync_all_enabled_users
    now,        \* the wall clock, in minutes since the epoch
    obs,        \* observations of the run (history variables, never read by the code)
    call        \* the frame of a direct call of a library function

vars == <<registry, store, upstream, provider, pass, batch, now, obs, call>>
worldVars == <<registry, store, upstream, provider, pass, batch, now, obs>>

----------------------------------------------------------------------------
(* Bounds of the model *)

\* number of distinct play instants the provider can report
MaxT == 4
\* the clock stops here: bounds the number of passes run from the UI
MaxClock == 2
\* the runs of the scheduled worker
MaxRuns == 1
\* the ticks of the clock between direct calls of the registry
MaxTicks == 1
\* the dedupe window (cfg.dedupe_read_rows), scaled down from 5000
DedupeReadRows == 3
\* the largest limit_rows a direct call of read_recent_dedupe_keys is given
MaxLimit == 3
\* the longest dedupe section a direct call of read_recent_dedupe_keys sees
MaxKeys == 4

----------------------------------------------------------------------------
(* Program constants *)

\* AppConfig.spotify_recently_played_lookback_minutes
LookbackMinutes == 60
\* AppConfig.spotify_recently_played_limit
RecentlyPlayedLimit == 50
\* get_recently_played: params["limit"] = min(limit, 50)
ProviderPageMax == 50

None == "<None>"

----------------------------------------------------------------------------
(* Text and time *)

Min(a, b) == IF a < b THEN a ELSE b
Max(a, b) == IF a > b THEN a ELSE b

Count(seq, x) == Cardinality({i \in 1..Len(seq) : seq[i] = x})

RECURSIVE SeqToSet(_)
SeqToSet(s) == IF s = <<>> THEN {} ELSE {Head(s)} \cup SeqToSet(Tail(s))

\* f"{n:02d}"
Pad2(n) == IF n < 10 THEN "0" \o ToString(n) ELSE ToString(n)

\* the play instants of the model, in epoch milliseconds: 40, 80, ... minutes
MsPerMinute == 60 * 1000
TimeMs(k) == k * 40 * MsPerMinute
Instants == {TimeMs(k) : k \in 1..MaxT}

\* datetime.isoformat() of an instant of the first day of the epoch, with "Z"
IsoText(ms) ==
    LET secs == ms \div 1000
        h == secs \div 3600
        m == (secs % 3600) \div 60
        s == secs % 60
    IN "1970-01-01T" \o Pad2(h) \o ":" \o Pad2(m) \o ":" \o Pad2(s) \o "Z"

\* datetime.fromisoformat(played_at.replace("Z", "+00:00")), then
\* int(dt.timestamp() * 1000): the inverse of IsoText on the model's instants
IsIso(text) == \E ms \in Instants : IsoText(ms) = text
played_at_ms(text) == CHOOSE ms \in Instants : IsoText(ms) = text

\* the integers whose decimal text the model can read back
Numerals == {-1, 0, 1} \cup Instants \cup {ms - LookbackMinutes * MsPerMinute : ms \in Instants}
\* str(n)
Str(n) == ToString(n)
\* int(text): [ok, value]; not ok stands for ValueError
ParseInt(text) ==
    IF \E n \in Numerals : ToString(n) = text
    THEN [ok |-> TRUE, value |-> CHOOSE n \in Numerals : ToString(n) = text]
    ELSE [ok |-> FALSE, value |-> 0]

\* now_utc_iso(): one clock unit is one minute
now_utc_iso(clock) == IsoText(clock * MsPerMinute)

\* ZoneInfo(name): the UTC offset in minutes on 1970-01-01; unknown names raise
Timezones == {"UTC", "Europe/Amsterdam"}
UtcOffsetMinutes(tz) == IF tz = "Europe/Amsterdam" THEN 60 ELSE 0

\* format_log_datetime: "{Month} {day}, {year} at {hour}:{minute:02d}{AMPM}"
format_log_datetime(played_at_iso, tz) ==
    LET local == played_at_ms(played_at_iso) \div MsPerMinute + UtcOffsetMinutes(tz)
        hour_24 == (local \div 60) % 24
        day == 1 + local \div (24 * 60)
        am_pm == IF hour_24 < 12 THEN "AM" ELSE "PM"
        hour_12 == IF hour_24 % 12 = 0 THEN 12 ELSE hour_24 % 12
    IN "January " \o ToString(day) \o ", 1970 at " \o ToString(hour_12) \o ":"
         \o Pad2(local % 60) \o am_pm

----------------------------------------------------------------------------
(* CredentialVault: crypto_utils.py *)

Secrets == {"k1", "k2"}
IVs == {"iv1", "iv2"}
RefreshTokens == {"", "rt0", "rt1", "rt2"}

\* Fernet(key).encrypt(data): a token binding key, a fresh IV and the data
FernetToken(key, iv, data) == "gAAAA." \o key \o "." \o iv \o "." \o data

\* Fernet(key).decrypt(token): the data of a token made under key, else InvalidToken
FernetDecrypt(key, token) ==
    IF \E iv \in IVs, d \in RefreshTokens : FernetToken(key, iv, d) = token
    THEN [ok |-> TRUE,
          value |-> CHOOSE d \in RefreshTokens :
                        \E iv \in IVs : FernetToken(key, iv, d) = token,
          kind |-> "", msg |-> ""]
    ELSE [ok |-> FALSE, value |-> "", kind |-> "InvalidToken", msg |-> ""]

encrypt_refresh_token(key, iv, refresh_token) == FernetToken(key, iv, refresh_token)

\* the emptiness guard applied to the decrypted text as well
decrypt_refresh_token_guards_plaintext(key, refresh_token_enc) ==
    LET r == FernetDecrypt(key, refresh_token_enc)
    IN IF refresh_token_enc = "" \/ (r.ok /\ r.value = "")
       THEN [ok |-> FALSE, value |-> "", kind |-> "ValueError",
             msg |-> "Empty encrypted refresh token"]
       ELSE IF r.ok THEN r
       ELSE [r EXCEPT !.msg = "Failed to decrypt refresh token"]

decrypt_refresh_token(key, refresh_token_enc) ==
    IF refresh_token_enc = ""
    THEN [ok |-> FALSE, value |-> "", kind |-> "ValueError",
          msg |-> "Empty encrypted refresh token"]
    ELSE LET r == FernetDecrypt(key, refresh_token_enc)
         IN IF r.ok THEN r
            ELSE [r EXCEPT !.msg = "Failed to decrypt refresh token"]

----------------------------------------------------------------------------
(* TenantStore / SchemaManager: sheet_structure.py, sheets_client.py *)

LOG_SHEET_TITLE == "log"
APP_STATE_TITLE == "__app_state"
DEDUPE_TITLE == "__dedupe"
TRACKS_TITLE == "__tracks"
ARTISTS_TITLE == "__artists"
Titles == {LOG_SHEET_TITLE, APP_STATE_TITLE, DEDUPE_TITLE, TRACKS_TITLE, ARTISTS_TITLE}

LOG_HEADERS == <<"Date", "Track", "Artist", "Spotify ID", "URL">>
APP_STATE_HEADERS == <<"key", "value">>
DEDUPE_HEADERS == <<"dedupe_key">>

\* APP_STATE_DEFAULTS, in dict order
APP_STATE_DEFAULTS ==
    << <<"enabled", "false">>, <<"timezone", "UTC">>, <<"last_synced_after_ts", "0">>,
       <<"spotify_user_id", "">>, <<"refresh_token_enc", "">>, <<"created_at", "">>,
       <<"updated_at", "">>, <<"last_error", "">> >>

\* A dict is a sequence of <<key, value>> pairs in insertion order.
DictKeys(d) == {d[i][1] : i \in 1..Len(d)}
DictGet(d, k, default) ==
    IF k \in DictKeys(d)
    THEN d[CHOOSE i \in 1..Len(d) : d[i][1] = k][2]
    ELSE default
\* d[k] = v
DictSet(d, k, v) ==
    IF k \in DictKeys(d)
    THEN [i \in 1..Len(d) |-> IF d[i][1] = k THEN <<k, v>> ELSE d[i]]
    ELSE Append(d, <<k, v>>)
\* d.setdefault(k, v)
DictSetDefault(d, k, v) == IF k \in DictKeys(d) THEN d ELSE Append(d, <<k, v>>)
\* {k: v for (k, v) in pairs}: a later pair overrides the value of an earlier one
RECURSIVE DictFrom(_, _)
DictFrom(d, pairs) ==
    IF pairs = <<>> THEN d
    ELSE DictFrom(DictSet(d, Head(pairs)[1], Head(pairs)[2]), Tail(pairs))
RECURSIVE DictWithDefaults(_, _)
DictWithDefaults(d, defaults) ==
    IF defaults = <<>> THEN d
    ELSE DictWithDefaults(DictSetDefault(d, Head(defaults)[1], Head(defaults)[2]),
                          Tail(defaults))

\* A spreadsheet: the worksheets present, each one's first row and hidden flag,
\* and the rows below the first row of __app_state, __dedupe and log.
EmptySpreadsheet ==
    [sheets |-> {}, header |-> [t \in Titles |-> <<>>], hidden |-> [t \in Titles |-> FALSE],
     state |-> <<>>, dedupe |-> <<>>, log |-> <<>>]

\* get_or_create_worksheet: add_worksheet makes an empty, visible worksheet
get_or_create_worksheet(ss, title) ==
    IF title \in ss.sheets THEN ss
    ELSE [ss EXCEPT !.sheets = @ \cup {title}, !.header[title] = <<>>,
                    !.hidden[title] = FALSE]

\* ws.update("1:1", [expected]) writes the first Len(expected) cells of the row
OverwritePrefix(row, expected) ==
    expected \o (IF Len(row) > Len(expected)
                 THEN SubSeq(row, Len(expected) + 1, Len(row)) ELSE <<>>)

\* a repair that clears the worksheet before it writes the header row
_ensure_headers_clears(ss, title, expected_headers) ==
    IF ss.header[title] # expected_headers
    THEN [ss EXCEPT !.header[title] = expected_headers,
                    !.log = IF title = "log" THEN <<>> ELSE @]
    ELSE ss

_ensure_headers(ss, title, expected_headers) ==
    IF ss.header[title] # expected_headers
    THEN [ss EXCEPT !.header[title] = OverwritePrefix(@, expected_headers)]
    ELSE ss

\* set_hidden: best effort; accepted says whether the backend took the request
set_hidden(ss, title, accepted) ==
    IF title \notin ss.sheets \/ ~accepted THEN ss
    ELSE [ss EXCEPT !.hidden[title] = TRUE]

\* the rows prepare_user_sheet appends to an empty __app_state
DefaultStateRows(timezone, now_iso) ==
    [i \in 1..Len(APP_STATE_DEFAULTS) |->
        LET key == APP_STATE_DEFAULTS[i][1]
        IN <<key,
             IF key \in {"created_at", "updated_at"} THEN now_iso
             ELSE IF key = "timezone" /\ timezone # None /\ timezone # "" THEN timezone
             ELSE APP_STATE_DEFAULTS[i][2]>>]

\* the defaults appended whether or not rows exist
prepare_app_state_always(ss, timezone, now_iso, accepted) ==
    LET a == _ensure_headers(get_or_create_worksheet(ss, APP_STATE_TITLE),
                             APP_STATE_TITLE, APP_STATE_HEADERS)
        b == set_hidden(a, APP_STATE_TITLE, accepted)
    IN [b EXCEPT !.state = @ \o DefaultStateRows(timezone, now_iso)]

\* prepare_user_sheet, the __app_state part (lines 67-85)
prepare_app_state(ss, timezone, now_iso, accepted) ==
    LET a == _ensure_headers(get_or_create_worksheet(ss, APP_STATE_TITLE),
                             APP_STATE_TITLE, APP_STATE_HEADERS)
        b == set_hidden(a, APP_STATE_TITLE, accepted)
    IN IF b.state = <<>>
       THEN [b EXCEPT !.state = DefaultStateRows(timezone, now_iso)]
       ELSE b

\* prepare_user_sheet; accepted: title -> whether set_hidden's request is taken
prepare_user_sheet(ss, timezone, now_iso, accepted) ==
    LET a == _ensure_headers(get_or_create_worksheet(ss, LOG_SHEET_TITLE),
                             LOG_SHEET_TITLE, LOG_HEADERS)
        b == prepare_app_state(a, timezone, now_iso, accepted[APP_STATE_TITLE])
        c == set_hidden(_ensure_headers(get_or_create_worksheet(b, DEDUPE_TITLE),
                                        DEDUPE_TITLE, DEDUPE_HEADERS),
                        DEDUPE_TITLE, accepted[DEDUPE_TITLE])
        d == set_hidden(get_or_create_worksheet(c, TRACKS_TITLE),
                        TRACKS_TITLE, accepted[TRACKS_TITLE])
    IN set_hidden(get_or_create_worksheet(d, ARTISTS_TITLE),
                  ARTISTS_TITLE, accepted[ARTISTS_TITLE])

\* fix_log_headers
fix_log_headers(ss) ==
    _ensure_headers(get_or_create_worksheet(ss, LOG_SHEET_TITLE), LOG_SHEET_TITLE, LOG_HEADERS)

\* AppState, as read_app_state builds it from the rows and the defaults
read_app_state(ss) ==
    LET data == DictWithDefaults(DictFrom(<<>>, ss.state), APP_STATE_DEFAULTS)
    IN [enabled |-> DictGet(data, "enabled", "false") \in {"true", "True", "TRUE"},
        timezone |-> DictGet(data, "timezone", "UTC"),
        last_synced_after_ts |-> DictGet(data, "last_synced_after_ts", "0"),
        spotify_user_id |-> DictGet(data, "spotify_user_id", ""),
        refresh_token_enc |-> DictGet(data, "refresh_token_enc", ""),
        created_at |-> DictGet(data, "created_at", ""),
        updated_at |-> DictGet(data, "updated_at", ""),
        last_error |-> DictGet(data, "last_error", "")]

\* what read_app_state does to the spreadsheet (lines 119-120)
read_app_state_effect(ss) ==
    _ensure_headers(get_or_create_worksheet(ss, APP_STATE_TITLE),
                    APP_STATE_TITLE, APP_STATE_HEADERS)

\* a write that does not fill in the defaults
write_app_state_updates_only(ss, state_updates) ==
    LET a == _ensure_headers(get_or_create_worksheet(ss, APP_STATE_TITLE),
                             APP_STATE_TITLE, APP_STATE_HEADERS)
    IN [a EXCEPT !.state = DictFrom(DictFrom(<<>>, a.state), state_updates)]

\* write_app_state: read every row, apply the updates, rewrite every row
write_app_state_from_defaults(ss, state_updates) ==
    LET a == _ensure_headers(get_or_create_worksheet(ss, APP_STATE_TITLE),
                             APP_STATE_TITLE, APP_STATE_HEADERS)
    IN [a EXCEPT !.state = DictWithDefaults(DictFrom(<<>>, state_updates),
                                            APP_STATE_DEFAULTS)]

write_app_state(ss, state_updates) ==
    LET a == _ensure_headers(get_or_create_worksheet(ss, APP_STATE_TITLE),
                             APP_STATE_TITLE, APP_STATE_HEADERS)
        current == DictWithDefaults(DictFrom(DictFrom(<<>>, a.state), state_updates),
                                    APP_STATE_DEFAULTS)
    IN [a EXCEPT !.state = current]

\* all_values[1:] of column 1 of __dedupe
DedupeColumn(ss) == ss.dedupe

\* the first limit_rows keys instead of the last
read_recent_dedupe_keys_oldest(ss, limit_rows) ==
    LET keys == DedupeColumn(ss)
    IN IF limit_rows <= 0 \/ Len(keys) <= limit_rows THEN keys
       ELSE SubSeq(keys, 1, limit_rows)

\* a read that returns every key of the section
read_recent_dedupe_keys_all(ss, limit_rows) == DedupeColumn(ss)

read_recent_dedupe_keys(ss, limit_rows) ==
    LET keys == DedupeColumn(ss)
    IN IF limit_rows <= 0 \/ Len(keys) <= limit_rows THEN keys
       ELSE SubSeq(keys, Len(keys) - limit_rows + 1, Len(keys))

\* what read_recent_dedupe_keys does to the spreadsheet (lines 164-165)
read_recent_dedupe_keys_effect(ss) ==
    _ensure_headers(get_or_create_worksheet(ss, DEDUPE_TITLE), DEDUPE_TITLE, DEDUPE_HEADERS)

\* an append that writes the keys of a pass in the opposite order
append_dedupe_keys_reversed(ss, keys) ==
    IF keys = <<>> THEN ss
    ELSE LET a == _ensure_headers(get_or_create_worksheet(ss, DEDUPE_TITLE),
                                  DEDUPE_TITLE, DEDUPE_HEADERS)
         IN [a EXCEPT !.dedupe = @ \o [i \in 1..Len(keys) |-> keys[Len(keys) + 1 - i]]]

append_dedupe_keys(ss, keys) ==
    IF keys = <<>> THEN ss
    ELSE LET a == _ensure_headers(get_or_create_worksheet(ss, DEDUPE_TITLE),
                                  DEDUPE_TITLE, DEDUPE_HEADERS)
         IN [a EXCEPT !.dedupe = @ \o keys]

\* an append that leaves out the rows the log already holds
append_log_rows_once(ss, rows) ==
    LET a == _ensure_headers(get_or_create_worksheet(ss, LOG_SHEET_TITLE),
                             LOG_SHEET_TITLE, LOG_HEADERS)
    IN [a EXCEPT !.log = @ \o SelectSeq(rows, LAMBDA r : r \notin SeqToSet(a.log))]

append_log_rows(ss, rows) ==
    IF rows = <<>> THEN ss
    ELSE LET a == _ensure_headers(get_or_create_worksheet(ss, LOG_SHEET_TITLE),
                                  LOG_SHEET_TITLE, LOG_HEADERS)
         IN [a EXCEPT !.log = @ \o rows]

----------------------------------------------------------------------------
(* HistoryFetcher: spotify_client.py *)

\* ", ".join(names)
RECURSIVE JoinNames(_)
JoinNames(names) ==
    IF names = <<>> THEN ""
    ELSE IF Len(names) = 1 THEN names[1]
    ELSE names[1] \o ", " \o JoinNames(Tail(names))

\* An item of the provider's payload: played_at and the fields of its track;
\* None stands for a missing or null field.
RawItem(played_at, id, url) ==
    [played_at |-> played_at, id |-> id, name |-> "Song",
     artists |-> <<"Ann", "Bob">>, url |-> url]

\* the k-th play of the model: a track with an id and an instant
Play(k) == RawItem(IsoText(TimeMs(k)), "trk" \o ToString(k % 2), None)
\* a play of a local file: the provider gives no track id
LocalFilePlay == RawItem(IsoText(TimeMs(1)), None, "https://open.spotify.com/local")
\* an item without played_at
UntimedPlay == RawItem(None, "trk0", None)
Plays == {Play(k) : k \in 1..MaxT}
\* items that lack a field the pass needs
IncompleteItems == <<UntimedPlay, LocalFilePlay>>

\* parse_recently_played_items, one item
ParseItem(item) ==
    [played_at |-> item.played_at,
     track_id |-> item.id,
     track_name |-> item.name,
     artist_names |-> JoinNames(item.artists),
     spotify_url |-> IF item.url # None /\ item.url # "" THEN item.url
                     ELSE IF item.id # None /\ item.id # ""
                          THEN "https://open.spotify.com/track/" \o item.id
                          ELSE ""]

parse_recently_played_items(payload) == [i \in 1..Len(payload) |-> ParseItem(payload[i])]

\* an Optional[int]
NoInt == [some |-> FALSE, value |-> 0]
SomeInt(n) == [some |-> TRUE, value |-> n]

\* the provider's filter: items played after the instant, if one is given
PlayedAfter(item, after_ms) ==
    \/ ~after_ms.some
    \/ item.played_at = None
    \/ played_at_ms(item.played_at) > after_ms.value

RECURSIVE FilterAfter(_, _)
FilterAfter(list, after_ms) ==
    IF list = <<>> THEN <<>>
    ELSE IF PlayedAfter(Head(list), after_ms)
         THEN <<Head(list)>> \o FilterAfter(Tail(list), after_ms)
         ELSE FilterAfter(Tail(list), after_ms)

\* get_recently_played: the first page of the provider's list, newest first
get_recently_played(list, limit, after_ms) ==
    LET found == FilterAfter(list, after_ms)
        page == Min(limit, ProviderPageMax)
    IN IF Len(found) <= page THEN found ELSE SubSeq(found, 1, page)

\* the sort key of the provider's list: untimed items sort first
SortMs(item) == IF item.played_at = None THEN TimeMs(MaxT + 1) ELSE played_at_ms(item.played_at)

\* the provider's list with one more item, kept newest first
RECURSIVE InsertNewestFirst(_, _)
InsertNewestFirst(list, item) ==
    IF list = <<>> THEN <<item>>
    ELSE IF SortMs(item) >= SortMs(Head(list)) THEN <<item>> \o list
    ELSE <<Head(list)>> \o InsertNewestFirst(Tail(list), item)

----------------------------------------------------------------------------
(* SyncOrchestrator, the pure parts: worker.py *)

\* cfg.fernet_key of the running deployment
FERNET_KEY == "k1"

\* a floor that is not held at zero
_compute_after_ms_unclamped(state, lookback_minutes) ==
    LET parsed == ParseInt(state.last_synced_after_ts)
        last_ts == IF parsed.ok THEN parsed.value ELSE 0
    IN IF last_ts <= 0 THEN NoInt
       ELSE SomeInt(last_ts - lookback_minutes * 60 * 1000)

_compute_after_ms(state, lookback_minutes) ==
    LET parsed == ParseInt(state.last_synced_after_ts)
        last_ts == IF parsed.ok THEN parsed.value ELSE 0
    IN IF last_ts <= 0 THEN NoInt
       ELSE SomeInt(Max(0, last_ts - lookback_minutes * 60 * 1000))

\* f"{spotify_user_id}|{played_at_iso}|{track_id or ''}"
_make_dedupe_key(spotify_user_id, played_at_iso, track_id) ==
    spotify_user_id \o "|" \o played_at_iso \o "|" \o (IF track_id = None THEN "" ELSE track_id)

\* the log row of an accepted item (lines 181-189)
LogRow(item, tz) ==
    <<format_log_datetime(item.played_at, tz), item.track_name, item.artist_names,
      item.track_id, item.spotify_url>>

\* the locals of the dedupe loop
LoopStart == [rows |-> <<>>, keys |-> <<>>, max |-> 0, ok |-> TRUE, kind |-> "", msg |-> ""]

\* an iteration that does not consult the recent keys
LoopBody_ignores_recent_keys(acc, item, spotify_user_id, recent_keys, timezone) ==
    LET tz == IF timezone = "" THEN "UTC" ELSE timezone
        dedupe_key == _make_dedupe_key(spotify_user_id, item.played_at, item.track_id)
        ms == played_at_ms(item.played_at)
    IN IF item.played_at \in {None, ""} \/ item.track_id \in {None, ""} THEN acc
       ELSE IF ~IsIso(item.played_at) \/ tz \notin Timezones
            THEN [acc EXCEPT !.ok = FALSE, !.kind = "ValueError", !.msg = "invalid"]
       ELSE [acc EXCEPT !.rows = Append(@, LogRow(item, tz)),
                        !.keys = Append(@, dedupe_key),
                        !.max = IF ms > @ THEN ms ELSE @]

\* one iteration of the loop over items (lines 171-201)
\* a loop that stops at the first item that lacks a field
LoopBody_stops_at_incomplete(acc, item, spotify_user_id, recent_keys, timezone) ==
    LET tz == IF timezone = "" THEN "UTC" ELSE timezone
        dedupe_key == _make_dedupe_key(spotify_user_id, item.played_at, item.track_id)
        ms == played_at_ms(item.played_at)
    IN IF item.played_at \in {None, ""} \/ item.track_id \in {None, ""}
       THEN [acc EXCEPT !.msg = "break"]
       ELSE IF acc.msg = "break" \/ dedupe_key \in recent_keys THEN acc
       ELSE [acc EXCEPT !.rows = Append(@, LogRow(item, tz)),
                        !.keys = Append(@, dedupe_key),
                        !.max = IF ms > @ THEN ms ELSE @]

LoopBody(acc, item, spotify_user_id, recent_keys, timezone) ==
    LET tz == IF timezone = "" THEN "UTC" ELSE timezone
        dedupe_key == _make_dedupe_key(spotify_user_id, item.played_at, item.track_id)
        ms == played_at_ms(item.played_at)
    IN IF item.played_at \in {None, ""} \/ item.track_id \in {None, ""} THEN acc
       ELSE IF dedupe_key \in recent_keys THEN acc
       ELSE IF ~IsIso(item.played_at)
            THEN [acc EXCEPT !.ok = FALSE, !.kind = "ValueError",
                             !.msg = "Invalid isoformat string: " \o item.played_at]
       ELSE IF tz \notin Timezones
            THEN [acc EXCEPT !.ok = FALSE, !.kind = "ZoneInfoNotFoundError",
                             !.msg = "No time zone found with key " \o tz]
       ELSE [acc EXCEPT !.rows = Append(@, LogRow(item, tz)),
                        !.keys = Append(@, dedupe_key),
                        !.max = IF ms > @ THEN ms ELSE @]

RECURSIVE DedupeLoop(_, _, _, _, _)
DedupeLoop(acc, items, spotify_user_id, recent_keys, timezone) ==
    IF items = <<>> \/ ~acc.ok THEN acc
    ELSE DedupeLoop(LoopBody(acc, Head(items), spotify_user_id, recent_keys, timezone),
                    Tail(items), spotify_user_id, recent_keys, timezone)

\* a final state write that leaves the cursor alone
FinalUpdates_keeps_cursor(max_played_at_ms, now_iso, state) ==
    << <<"updated_at", now_iso>>, <<"last_error", "">> >>

\* the updates of the final state write (lines 207-209)
FinalUpdates(max_played_at_ms, now_iso, state) ==
    LET base == << <<"updated_at", now_iso>>, <<"last_error", "">> >>
    IN IF max_played_at_ms # 0
       THEN Append(base, <<"last_synced_after_ts", Str(max_played_at_ms)>>)
       ELSE base

----------------------------------------------------------------------------
(* Tenants, processes and frames at rest *)

Tenants == {"sheetA", "sheetB"}
Procs == {"worker", "ui"}

REGISTRY_HEADERS ==
    <<"user_sheet_id", "enabled", "created_at", "last_seen_at", "last_sync_at", "last_error">>

NoResult == [ok |-> FALSE, value |-> "", kind |-> "", msg |-> ""]

\* the outcomes of the hide requests of one prepare_user_sheet call
HideOutcomes == {[t \in Titles |-> b] : b \in BOOLEAN}


NoCall == [fn |-> "none"]

IdlePass ==
    [pc |-> "idle", tenant |-> "", state |-> read_app_state(EmptySpreadsheet),
     refresh_token |-> "", tokens |-> [access_token |-> "", refresh_token |-> ""],
     spotify_user_id |-> "", items |-> <<>>, recent_keys |-> {},
     new_log_rows |-> <<>>, new_dedupe_keys |-> <<>>, max_played_at_ms |-> 0,
     exc_kind |-> "", exc |-> "", raised_at |-> "", written |-> <<>>]

IdleBatch == [pc |-> "idle", rows |-> <<>>, idx |-> 0, exc |-> ""]

\* what the observer keeps of the previous pass run from the UI
NoPrior == [complete |-> FALSE, entry |-> EmptySpreadsheet, items |-> <<>>]

NoObs ==
    [entry |-> [p \in Procs |-> EmptySpreadsheet],
     prior |-> NoPrior, failed |-> FALSE,
     run_registry |-> [headers |-> REGISTRY_HEADERS, rows |-> <<>>],
     run_store |-> [t \in Tenants |-> EmptySpreadsheet], started |-> <<>>,
     returned |-> {}, raised |-> [t \in Tenants |-> None],
     pass_faults |-> {}, write_faults |-> {}, failed_before |-> {}]

\* everything but the frame of the direct call is at rest
Quiet ==
    /\ registry = [headers |-> REGISTRY_HEADERS, rows |-> <<>>]
    /\ store = [t \in Tenants |-> EmptySpreadsheet]
    /\ upstream = [t \in Tenants |-> <<>>]
    /\ provider = [t \in Tenants |-> [account_id |-> "u1", refresh_token |-> "rt0",
                                       rotates |-> FALSE]]
    /\ pass = [p \in Procs |-> IdlePass]
    /\ batch = IdleBatch
    /\ now = 0
    /\ obs = NoObs

----------------------------------------------------------------------------
(* One synchronization pass: sync_single_user, a step per external call *)

\* the refresh token the provider hands out when it rotates rt
RotatedToken(rt) == IF rt = "rt0" THEN "rt1" ELSE rt

\* raise: the pass ends with the exception
Raise(p, kind, msg) ==
    pass' = [pass EXCEPT ![p].pc = "raised", ![p].exc_kind = kind, ![p].exc = msg,
                         ![p].raised_at = pass[p].pc]

\* an external call of the pass of p fails: recorded for the observer
FaultSeen(p) ==
    IF p = "worker" THEN obs' = [obs EXCEPT !.pass_faults = @ \cup {pass[p].tenant}]
    ELSE UNCHANGED obs

\* line 125: open_user_sheet
PassOpen(p) ==
    /\ pass[p].pc = "open"
    /\ \E fault \in BOOLEAN :
         IF fault
         THEN /\ Raise(p, "APIError", "APIError: the spreadsheet cannot be opened")
              /\ FaultSeen(p)
         ELSE /\ pass' = [pass EXCEPT ![p].pc = "prepare"]
              /\ UNCHANGED obs
    /\ UNCHANGED <<registry, store, upstream, provider, batch, now, call>>

\* line 126: prepare_user_sheet(ss)
PassPrepare(p) ==
    /\ pass[p].pc = "prepare"
    /\ \E fault \in BOOLEAN, accepted \in HideOutcomes :
         IF fault
         THEN /\ Raise(p, "APIError", "APIError: prepare_user_sheet")
              /\ FaultSeen(p)
              /\ UNCHANGED store
         ELSE /\ store' = [store EXCEPT ![pass[p].tenant] =
                              prepare_user_sheet(@, None, now_utc_iso(now), accepted)]
              /\ pass' = [pass EXCEPT ![p].pc = "read_state"]
              /\ UNCHANGED obs
    /\ UNCHANGED <<registry, upstream, provider, batch, now, call>>

\* a pass that reads the state and goes on whatever the credential is
PassReadState_goes_on(p) ==
    /\ pass[p].pc = "read_state"
    /\ LET ss == store[pass[p].tenant]
       IN /\ store' = [store EXCEPT ![pass[p].tenant] = read_app_state_effect(ss)]
          /\ pass' = [pass EXCEPT ![p].pc = "decrypt", ![p].state = read_app_state(ss)]
    /\ UNCHANGED <<registry, upstream, provider, batch, now, obs, call>>

\* lines 127-130: read_app_state, then fail fast on a missing credential
PassReadState(p) ==
    /\ pass[p].pc = "read_state"
    /\ \E fault \in BOOLEAN :
         IF fault
         THEN /\ Raise(p, "APIError", "APIError: read_app_state")
              /\ FaultSeen(p)
              /\ UNCHANGED store
         ELSE LET ss == store[pass[p].tenant]
                  state == read_app_state(ss)
              IN /\ store' = [store EXCEPT ![pass[p].tenant] = read_app_state_effect(ss)]
                 /\ IF state.refresh_token_enc = ""
                    THEN pass' = [pass EXCEPT ![p].pc = "raised", ![p].state = state,
                                       ![p].raised_at = "read_state",
                                       ![p].exc_kind = "RuntimeError",
                                       ![p].exc = "Missing refresh_token_enc in __app_state"]
                    ELSE pass' = [pass EXCEPT ![p].pc = "decrypt", ![p].state = state]
                 /\ UNCHANGED obs
    /\ UNCHANGED <<registry, upstream, provider, batch, now, call>>

\* line 132: decrypt_refresh_token
PassDecrypt(p) ==
    /\ pass[p].pc = "decrypt"
    /\ LET r == decrypt_refresh_token(FERNET_KEY, pass[p].state.refresh_token_enc)
       IN IF r.ok
          THEN pass' = [pass EXCEPT ![p].pc = "refresh", ![p].refresh_token = r.value]
          ELSE Raise(p, r.kind, r.msg)
    /\ UNCHANGED <<registry, store, upstream, provider, batch, now, obs, call>>

\* line 133: refresh_access_token; the provider refuses a token it does not
\* hold for the account, and may rotate the one it holds
PassRefresh(p) ==
    /\ pass[p].pc = "refresh"
    /\ LET t == pass[p].tenant
           rt == pass[p].refresh_token
       IN \E fault \in BOOLEAN, rotate \in BOOLEAN :
            IF fault
            THEN /\ ~rotate
                 /\ Raise(p, "HTTPError", "HTTPError: token endpoint")
                 /\ FaultSeen(p)
                 /\ UNCHANGED provider
            ELSE IF rt # provider[t].refresh_token
            THEN /\ ~rotate
                 /\ Raise(p, "HTTPError", "400 Client Error: Bad Request for url: token")
                 /\ UNCHANGED <<provider, obs>>
            ELSE /\ rotate => provider[t].rotates
                 /\ LET new_rt == IF rotate THEN RotatedToken(rt) ELSE rt
                    IN /\ provider' = [provider EXCEPT ![t].refresh_token = new_rt]
                       /\ pass' = [pass EXCEPT
                              ![p].tokens = [access_token |-> "at-" \o provider[t].account_id,
                                             refresh_token |-> new_rt],
                              ![p].pc = IF new_rt # rt THEN "persist_token" ELSE "user_id"]
                 /\ UNCHANGED obs
    /\ UNCHANGED <<registry, store, upstream, batch, now, call>>

\* a pass that goes on without writing the rotated token
PassPersistToken_skips(p) ==
    /\ pass[p].pc = "persist_token"
    /\ pass' = [pass EXCEPT ![p].pc = "user_id"]
    /\ UNCHANGED <<registry, store, upstream, provider, batch, now, obs, call>>

\* lines 136-141: a rotated refresh token is encrypted and written to the state
PassPersistToken(p) ==
    /\ pass[p].pc = "persist_token"
    /\ \E fault \in BOOLEAN, iv \in IVs :
         IF fault
         THEN /\ iv = "iv1"
              /\ Raise(p, "APIError", "APIError: write_app_state")
              /\ FaultSeen(p)
              /\ UNCHANGED store
         ELSE LET new_enc == encrypt_refresh_token(FERNET_KEY, iv, pass[p].tokens.refresh_token)
              IN /\ store' = [store EXCEPT ![pass[p].tenant] =
                                 write_app_state(@, << <<"refresh_token_enc", new_enc>> >>)]
                 /\ pass' = [pass EXCEPT ![p].pc = "user_id",
                                         ![p].state.refresh_token_enc = new_enc,
                                         ![p].written = <<"refresh_token_enc">>]
                 /\ UNCHANGED obs
    /\ UNCHANGED <<registry, upstream, provider, batch, now, call>>

\* a pass that requests the profile whether or not the state holds the id
PassUserId_always_requests(p) ==
    /\ pass[p].pc = "user_id"
    /\ pass' = [pass EXCEPT ![p].pc = "persist_user",
                            ![p].spotify_user_id = provider[pass[p].tenant].account_id]
    /\ UNCHANGED <<registry, store, upstream, provider, batch, now, obs, call>>

\* lines 144-147: the account id of the state, else of the provider's profile
PassUserId(p) ==
    /\ pass[p].pc = "user_id"
    /\ IF pass[p].state.spotify_user_id # ""
       THEN /\ pass' = [pass EXCEPT ![p].pc = "fetch",
                                    ![p].spotify_user_id = pass[p].state.spotify_user_id]
            /\ UNCHANGED obs
       ELSE \E fault \in BOOLEAN :
              IF fault
              THEN /\ Raise(p, "HTTPError", "HTTPError: profile")
                   /\ FaultSeen(p)
              ELSE /\ pass' = [pass EXCEPT ![p].pc = "persist_user",
                                 ![p].spotify_user_id = provider[pass[p].tenant].account_id]
                   /\ UNCHANGED obs
    /\ UNCHANGED <<registry, store, upstream, provider, batch, now, call>>

\* line 148: write_app_state({"spotify_user_id": ...})
PassPersistUser(p) ==
    /\ pass[p].pc = "persist_user"
    /\ \E fault \in BOOLEAN :
         IF fault
         THEN /\ Raise(p, "APIError", "APIError: write_app_state")
              /\ FaultSeen(p)
              /\ UNCHANGED store
         ELSE /\ store' = [store EXCEPT ![pass[p].tenant] =
                              write_app_state(@, << <<"spotify_user_id",
                                                      pass[p].spotify_user_id>> >>)]
              /\ pass' = [pass EXCEPT ![p].pc = "fetch",
                                      ![p].written = <<"spotify_user_id">>]
              /\ UNCHANGED obs
    /\ UNCHANGED <<registry, upstream, provider, batch, now, call>>

\* lines 150-157: the query floor, the history request, the normalized items
PassFetch(p) ==
    /\ pass[p].pc = "fetch"
    /\ \E fault \in BOOLEAN :
         IF fault
         THEN /\ Raise(p, "HTTPError", "HTTPError: recently-played")
              /\ FaultSeen(p)
         ELSE LET after_ms == _compute_after_ms(pass[p].state, LookbackMinutes)
                  payload == get_recently_played(upstream[pass[p].tenant],
                                                 RecentlyPlayedLimit, after_ms)
                  items == parse_recently_played_items(payload)
              IN /\ pass' = [pass EXCEPT ![p].items = items,
                                ![p].pc = IF items = <<>> THEN "no_items" ELSE "read_dedupe"]
                 /\ UNCHANGED obs
    /\ UNCHANGED <<registry, store, upstream, provider, batch, now, call>>

\* lines 159-161: nothing fetched: only updated_at is written
PassNoItems(p) ==
    /\ pass[p].pc = "no_items"
    /\ \E fault \in BOOLEAN :
         IF fault
         THEN /\ Raise(p, "APIError", "APIError: write_app_state")
              /\ FaultSeen(p)
              /\ UNCHANGED store
         ELSE /\ store' = [store EXCEPT ![pass[p].tenant] =
                              write_app_state(@, << <<"updated_at", now_utc_iso(now)>> >>)]
              /\ pass' = [pass EXCEPT ![p].pc = "returned", ![p].written = <<"updated_at">>]
              /\ UNCHANGED obs
    /\ UNCHANGED <<registry, upstream, provider, batch, now, call>>

\* lines 164-166: the recent dedupe keys
PassReadDedupe(p) ==
    /\ pass[p].pc = "read_dedupe"
    /\ \E fault \in BOOLEAN :
         IF fault
         THEN /\ Raise(p, "APIError", "APIError: read_recent_dedupe_keys")
              /\ FaultSeen(p)
              /\ UNCHANGED store
         ELSE LET ss == store[pass[p].tenant]
              IN /\ store' = [store EXCEPT ![pass[p].tenant] =
                                 read_recent_dedupe_keys_effect(ss)]
                 /\ pass' = [pass EXCEPT ![p].pc = "dedupe",
                                ![p].recent_keys =
                                    SeqToSet(read_recent_dedupe_keys(ss, DedupeReadRows))]
                 /\ UNCHANGED obs
    /\ UNCHANGED <<registry, upstream, provider, batch, now, call>>

\* lines 167-201: the loop over the items
PassDedupe(p) ==
    /\ pass[p].pc = "dedupe"
    /\ LET acc == DedupeLoop(LoopStart, pass[p].items, pass[p].spotify_user_id,
                             pass[p].recent_keys, pass[p].state.timezone)
       IN IF acc.ok
          THEN pass' = [pass EXCEPT ![p].new_log_rows = acc.rows,
                                    ![p].new_dedupe_keys = acc.keys,
                                    ![p].max_played_at_ms = acc.max,
                                    ![p].pc = IF acc.rows # <<>> THEN "append_log"
                                              ELSE "final_write"]
          ELSE Raise(p, acc.kind, acc.msg)
    /\ UNCHANGED <<registry, store, upstream, provider, batch, now, obs, call>>

\* an append that commits the cursor together with the rows
PassAppendLog_commits(p) ==
    /\ pass[p].pc = "append_log"
    /\ store' = [store EXCEPT ![pass[p].tenant] =
                    write_app_state(append_log_rows(@, pass[p].new_log_rows),
                                    FinalUpdates(pass[p].max_played_at_ms, now_utc_iso(now),
                                                 pass[p].state))]
    /\ pass' = [pass EXCEPT ![p].pc = "append_dedupe"]
    /\ UNCHANGED <<registry, upstream, provider, batch, now, obs, call>>

\* line 204: append_log_rows
PassAppendLog(p) ==
    /\ pass[p].pc = "append_log"
    /\ \E fault \in BOOLEAN :
         IF fault
         THEN /\ Raise(p, "APIError", "APIError: append_log_rows")
              /\ FaultSeen(p)
              /\ UNCHANGED store
         ELSE /\ store' = [store EXCEPT ![pass[p].tenant] =
                              append_log_rows(@, pass[p].new_log_rows)]
              /\ pass' = [pass EXCEPT ![p].pc = "append_dedupe"]
              /\ UNCHANGED obs
    /\ UNCHANGED <<registry, upstream, provider, batch, now, call>>

\* line 205: append_dedupe_keys
PassAppendDedupe(p) ==
    /\ pass[p].pc = "append_dedupe"
    /\ \E fault \in BOOLEAN :
         IF fault
         THEN /\ Raise(p, "APIError", "APIError: append_dedupe_keys")
              /\ FaultSeen(p)
              /\ UNCHANGED store
         ELSE /\ store' = [store EXCEPT ![pass[p].tenant] =
                              append_dedupe_keys(@, pass[p].new_dedupe_keys)]
              /\ pass' = [pass EXCEPT ![p].pc = "final_write"]
              /\ UNCHANGED obs
    /\ UNCHANGED <<registry, upstream, provider, batch, now, call>>

\* lines 207-210: the final state write
PassFinalWrite(p) ==
    /\ pass[p].pc = "final_write"
    /\ \E fault \in BOOLEAN :
         IF fault
         THEN /\ Raise(p, "APIError", "APIError: write_app_state")
              /\ FaultSeen(p)
              /\ UNCHANGED store
         ELSE /\ store' = [store EXCEPT ![pass[p].tenant] =
                              write_app_state(@, FinalUpdates(pass[p].max_played_at_ms,
                                                              now_utc_iso(now), pass[p].state))]
              /\ pass' = [pass EXCEPT
                     ![p].pc = "returned",
                     ![p].written =
                         LET updates == FinalUpdates(pass[p].max_played_at_ms,
                                                     now_utc_iso(now), pass[p].state)
                         IN [i \in 1..Len(updates) |-> updates[i][1]]]
              /\ UNCHANGED obs
    /\ UNCHANGED <<registry, upstream, provider, batch, now, call>>

\* the frame of a pass that has just been called for tenant t
EnterPass(t) == [IdlePass EXCEPT !.pc = "open", !.tenant = t]

----------------------------------------------------------------------------
(* The callers of a pass and the environment *)

\* track_logger_app.py, "Run sync now": sync_single_user(sheet_id)
RunSyncNow(t) ==
    /\ pass["ui"].pc = "idle" /\ batch.pc = "idle"
    /\ now < MaxClock
    /\ now' = now + 1
    /\ pass' = [pass EXCEPT !["ui"] = EnterPass(t)]
    /\ obs' = [obs EXCEPT !.entry["ui"] = store[t]]
    /\ UNCHANGED <<registry, store, upstream, provider, batch, call>>

\* "Run sync now" pressed while the batch is inside a pass: nothing in the
\* handler or in sync_single_user looks at what else is running
RunSyncNowDuringBatch(t) ==
    /\ pass["ui"].pc = "idle" /\ batch.pc = "sync"
    /\ now < MaxClock
    /\ now' = now + 1
    /\ pass' = [pass EXCEPT !["ui"] = EnterPass(t)]
    /\ obs' = [obs EXCEPT !.entry["ui"] = store[t]]
    /\ UNCHANGED <<registry, store, upstream, provider, batch, call>>

\* the button's handler shows the outcome (lines 110-114)
UiAfterSync ==
    /\ pass["ui"].pc \in {"returned", "raised"}
    /\ pass' = [pass EXCEPT !["ui"] = IdlePass]
    /\ store' = IF pass["ui"].pc = "returned"
                THEN [store EXCEPT ![pass["ui"].tenant] = read_app_state_effect(@)]
                ELSE store
    /\ obs' = [obs EXCEPT !.entry["ui"] = EmptySpreadsheet,
                          !.prior = IF pass["ui"].pc = "returned"
                                    THEN [complete |-> TRUE, entry |-> obs.entry["ui"],
                                          items |-> pass["ui"].items]
                                    ELSE NoPrior,
                          !.failed = @ \/ pass["ui"].pc = "raised"]
    /\ UNCHANGED <<registry, upstream, provider, batch, now, call>>

\* the provider lists one more play of the account, possibly an earlier
\* one that it delivers late
ProviderRecords(t) ==
    /\ \A p \in Procs : pass[p].pc = "idle"
    /\ batch.pc = "idle"
    /\ \E item \in Plays :
         /\ item \notin SeqToSet(upstream[t])
         /\ upstream' = [upstream EXCEPT ![t] = InsertNewestFirst(@, item)]
    /\ UNCHANGED <<registry, store, provider, pass, batch, now, obs, call>>

\* the provider lists a play of its history a second time, so that one
\* response holds the same play twice; it does so for one play at most
ProviderRepeats(t) ==
    /\ \A p \in Procs : pass[p].pc = "idle"
    /\ batch.pc = "idle"
    /\ \A j \in 1..Len(upstream[t]) : Count(upstream[t], upstream[t][j]) = 1
    /\ \E i \in 1..Len(upstream[t]) :
         /\ upstream[t][i] \in Plays
         /\ upstream' = [upstream EXCEPT ![t] = InsertNewestFirst(@, upstream[t][i])]
    /\ UNCHANGED <<registry, store, provider, pass, batch, now, obs, call>>

----------------------------------------------------------------------------
(* The batch loop: sync_all_enabled_users, worker.py *)

\* str.lower() and str.strip() on the cell texts of the registry
Lower(text) == IF text \in {"TRUE", "True"} THEN "true" ELSE text
PaddedIds == {" sheetA ", "sheetA "}
Strip(text) ==
    IF text = " " THEN ""
    ELSE IF text \in PaddedIds THEN "sheetA"
    ELSE text

\* ws.row_values(n): the cells of a row up to its last non-empty one
RECURSIVE TrimTrailing(_)
TrimTrailing(row) ==
    IF row # <<>> /\ row[Len(row)] = "" THEN TrimTrailing(SubSeq(row, 1, Len(row) - 1))
    ELSE row

\* {h: i for i, h in enumerate(headers)}[key], 0 when the key is no header
ColumnOf(headers, key) ==
    LET at == {i \in 1..Len(headers) : headers[i] = key}
    IN IF at = {} THEN 0 ELSE CHOOSE i \in at : \A j \in at : j <= i

\* an update that takes the 0-based column index for a 1-based one
_update_registry_row_shifted(reg, row_index, updates) ==
    LET headers == TrimTrailing(reg.headers)
        stored == TrimTrailing(reg.rows[row_index])
        width == Max(Len(stored), Len(headers)) + 1
    IN [reg EXCEPT !.rows[row_index] =
            [i \in 1..width |->
                LET hits == {u \in 1..Len(updates) : ColumnOf(headers, updates[u][1]) = i - 1}
                IN IF hits # {} THEN updates[CHOOSE u \in hits : TRUE][2]
                   ELSE IF i <= Len(stored) THEN stored[i] ELSE ""]]

\* an update that writes the given columns and blanks the others
_update_registry_row_rewrites(reg, row_index, updates) ==
    [reg EXCEPT !.rows[row_index] =
        [i \in 1..Len(reg.headers) |->
            LET hits == {u \in 1..Len(updates) : ColumnOf(reg.headers, updates[u][1]) = i}
            IN IF hits = {} THEN "" ELSE updates[CHOOSE u \in hits : TRUE][2]]]

\* worker.py, _update_registry_row: row_index counts the data rows from 1
_update_registry_row(reg, row_index, updates) ==
    LET headers == TrimTrailing(reg.headers)
        row_num == row_index + 1
        stored == TrimTrailing(reg.rows[row_num - 1])
        width == Max(Len(stored), Len(headers))
        padded == [i \in 1..width |-> IF i <= Len(stored) THEN stored[i] ELSE ""]
        row_values == [i \in 1..width |->
                         LET hits == {u \in 1..Len(updates) :
                                         ColumnOf(headers, updates[u][1]) = i}
                         IN IF hits = {} THEN padded[i]
                            ELSE updates[CHOOSE u \in hits : \A v \in hits : v <= u][2]]
    IN [reg EXCEPT !.rows[row_num - 1] = row_values]

_ensure_registry_headers(reg) ==
    IF TrimTrailing(reg.headers) # REGISTRY_HEADERS
    THEN [reg EXCEPT !.headers = REGISTRY_HEADERS]
    ELSE reg

\* ws.get_all_records(): one dict per data row, keyed by the header row
_read_registry_rows(reg) ==
    [i \in 1..Len(reg.rows) |->
        [h \in SeqToSet(reg.headers) |->
            LET c == ColumnOf(reg.headers, h)
            IN IF c <= Len(reg.rows[i]) THEN reg.rows[i][c] ELSE ""]]

\* row.get(key, "")
RowGet(row, key) == IF key \in DOMAIN row THEN row[key] ELSE ""

\* the tenant of the registry row the loop is at
BatchTenant == Strip(RowGet(batch.rows[batch.idx], "user_sheet_id"))

\* lines 72-77: open the registry, repair its header row, read the rows
RunBatch ==
    /\ batch.pc = "idle"
    /\ \A p \in Procs : pass[p].pc = "idle"
    /\ now < MaxRuns
    /\ now' = now + 1
    /\ \E fault \in BOOLEAN :
         IF fault
         THEN /\ batch' = [IdleBatch EXCEPT !.pc = "failed_start",
                                            !.exc = "APIError: registry"]
              /\ UNCHANGED registry
         ELSE LET reg == _ensure_registry_headers(registry)
              IN /\ registry' = reg
                 /\ batch' = [pc |-> "loop", rows |-> _read_registry_rows(reg),
                              idx |-> 1, exc |-> ""]
    /\ obs' = [NoObs EXCEPT !.run_registry = registry, !.run_store = store]
    /\ UNCHANGED <<store, upstream, provider, pass, call>>

\* the scheduler starts the worker process once more after a run has ended
RunBatchAgain ==
    /\ batch.pc = "idle"
    /\ \A p \in Procs : pass[p].pc = "idle"
    /\ now >= 1 /\ now < MaxRuns + 1
    /\ now' = now + 1
    /\ \E fault \in BOOLEAN :
         IF fault
         THEN /\ batch' = [IdleBatch EXCEPT !.pc = "failed_start",
                                            !.exc = "APIError: registry"]
              /\ UNCHANGED registry
         ELSE LET reg == _ensure_registry_headers(registry)
              IN /\ registry' = reg
                 /\ batch' = [pc |-> "loop", rows |-> _read_registry_rows(reg),
                              idx |-> 1, exc |-> ""]
    /\ obs' = [NoObs EXCEPT !.run_registry = registry, !.run_store = store,
                            !.failed_before = {t \in Tenants : obs.raised[t] # None}]
    /\ UNCHANGED <<store, upstream, provider, pass, call>>

\* lines 78-85: the next row; a disabled row or one without an id is skipped
BatchIter ==
    /\ batch.pc = "loop"
    /\ batch.idx <= Len(batch.rows)
    /\ LET row == batch.rows[batch.idx]
           user_sheet_id == Strip(RowGet(row, "user_sheet_id"))
       IN IF Lower(RowGet(row, "enabled")) # "true" \/ user_sheet_id = ""
          THEN /\ batch' = [batch EXCEPT !.idx = @ + 1]
               /\ UNCHANGED pass
               /\ UNCHANGED obs
          ELSE /\ batch' = [batch EXCEPT !.pc = "sync"]
               /\ pass' = [pass EXCEPT !["worker"] = EnterPass(user_sheet_id)]
               /\ obs' = [obs EXCEPT !.started = Append(@, user_sheet_id)]
    /\ UNCHANGED <<registry, store, upstream, provider, now, call>>

\* lines 86-91: the pass returned: the status write of a success
BatchWriteOk ==
    /\ batch.pc = "sync"
    /\ pass["worker"].pc = "returned"
    /\ pass' = [pass EXCEPT !["worker"] = IdlePass]
    /\ \E fault \in BOOLEAN :
         IF fault
         THEN /\ batch' = [batch EXCEPT !.pc = "handler",
                                        !.exc = "APIError: registry update"]
              /\ obs' = [obs EXCEPT !.returned = @ \cup {BatchTenant},
                                    !.write_faults = @ \cup {BatchTenant}]
              /\ UNCHANGED registry
         ELSE /\ registry' = _update_registry_row(registry, batch.idx,
                                  << <<"last_sync_at", now_utc_iso(now)>>,
                                     <<"last_error", "">> >>)
              /\ batch' = [batch EXCEPT !.pc = "loop", !.idx = @ + 1]
              /\ obs' = [obs EXCEPT !.returned = @ \cup {BatchTenant}]
    /\ UNCHANGED <<store, upstream, provider, now, call>>

\* a loop that goes on to the next row without the status write of a failure
BatchCatch_goes_on ==
    /\ batch.pc = "sync"
    /\ pass["worker"].pc = "raised"
    /\ batch' = [batch EXCEPT !.pc = "loop", !.idx = @ + 1]
    /\ pass' = [pass EXCEPT !["worker"] = IdlePass]
    /\ obs' = [obs EXCEPT !.raised[BatchTenant] = pass["worker"].exc]
    /\ UNCHANGED <<registry, store, upstream, provider, now, call>>

\* line 92: except Exception catches what the pass raised
BatchCatch ==
    /\ batch.pc = "sync"
    /\ pass["worker"].pc = "raised"
    /\ batch' = [batch EXCEPT !.pc = "handler", !.exc = pass["worker"].exc]
    /\ pass' = [pass EXCEPT !["worker"] = IdlePass]
    /\ obs' = [obs EXCEPT !.raised[BatchTenant] = pass["worker"].exc]
    /\ UNCHANGED <<registry, store, upstream, provider, now, call>>

\* a handler that stamps last_sync_at together with the error
BatchHandler_stamps ==
    /\ batch.pc = "handler"
    /\ registry' = _update_registry_row(registry, batch.idx,
                        << <<"last_sync_at", now_utc_iso(now)>>,
                           <<"last_error", batch.exc>> >>)
    /\ batch' = [batch EXCEPT !.pc = "loop", !.idx = @ + 1, !.exc = ""]
    /\ UNCHANGED <<store, upstream, provider, pass, now, obs, call>>

\* lines 93-97: the handler writes str(exc) to the row; the write is made
\* outside any try, so its failure leaves sync_all_enabled_users
BatchHandler_writes_app_state ==
    /\ batch.pc = "handler"
    /\ registry' = _update_registry_row(registry, batch.idx,
                        << <<"last_error", batch.exc>> >>)
    /\ store' = [store EXCEPT ![BatchTenant] =
                    write_app_state(@, << <<"last_error", batch.exc>> >>)]
    /\ batch' = [batch EXCEPT !.pc = "loop", !.idx = @ + 1, !.exc = ""]
    /\ UNCHANGED <<upstream, provider, pass, now, obs, call>>

BatchHandler ==
    /\ batch.pc = "handler"
    /\ \E fault \in BOOLEAN :
         IF fault
         THEN /\ batch' = [batch EXCEPT !.pc = "aborted",
                                        !.exc = "APIError: registry update"]
              /\ obs' = [obs EXCEPT !.write_faults = @ \cup {BatchTenant}]
              /\ UNCHANGED registry
         ELSE /\ registry' = _update_registry_row(registry, batch.idx,
                                  << <<"last_error", batch.exc>> >>)
              /\ batch' = [batch EXCEPT !.pc = "loop", !.idx = @ + 1, !.exc = ""]
              /\ UNCHANGED obs
    /\ UNCHANGED <<store, upstream, provider, pass, now, call>>

\* the loop is exhausted: sync_all_enabled_users returns
BatchDone ==
    /\ batch.pc = "loop"
    /\ batch.idx > Len(batch.rows)
    /\ batch' = [batch EXCEPT !.pc = "finished"]
    /\ UNCHANGED <<registry, store, upstream, provider, pass, now, obs, call>>

\* the worker process has ended; the scheduler may start it again
BatchExit ==
    /\ batch.pc \in {"finished", "aborted", "failed_start"}
    /\ batch' = IdleBatch
    /\ UNCHANGED <<registry, store, upstream, provider, pass, now, obs, call>>

----------------------------------------------------------------------------
(* TenantRegistry: registry.py *)

\* _ensure_registry_worksheet: the header row is rewritten unless it is exact
_ensure_registry_worksheet(reg) ==
    IF TrimTrailing(reg.headers) # REGISTRY_HEADERS
    THEN [reg EXCEPT !.headers = REGISTRY_HEADERS]
    ELSE reg

\* an update that writes the given columns and blanks the others
registry_update_registry_row_rewrites(reg, row_num, updates) ==
    [reg EXCEPT !.rows[row_num - 1] =
        [i \in 1..Len(reg.headers) |->
            LET hits == {u \in 1..Len(updates) : ColumnOf(reg.headers, updates[u][1]) = i}
            IN IF hits = {} THEN "" ELSE updates[CHOOSE u \in hits : TRUE][2]]]

\* registry.py, _update_registry_row: row_num is the row of the worksheet,
\* the header row being row 1
registry_update_registry_row(reg, row_num, updates) ==
    LET headers == TrimTrailing(reg.headers)
        stored == TrimTrailing(reg.rows[row_num - 1])
        width == Max(Len(stored), Len(headers))
        padded == [i \in 1..width |-> IF i <= Len(stored) THEN stored[i] ELSE ""]
        row_values == [i \in 1..width |->
                         LET hits == {u \in 1..Len(updates) :
                                         ColumnOf(headers, updates[u][1]) = i}
                         IN IF hits = {} THEN padded[i]
                            ELSE updates[CHOOSE u \in hits : \A v \in hits : v <= u][2]]
    IN [reg EXCEPT !.rows[row_num - 1] = row_values]

\* the worksheet row of the first record whose id is user_sheet_id, else 0
FindRow(records, user_sheet_id) ==
    LET at == {i \in 1..Len(records) :
                  Strip(RowGet(records[i], "user_sheet_id")) = user_sheet_id}
    IN IF at = {} THEN 0 ELSE 1 + CHOOSE i \in at : \A j \in at : i <= j

\* an upsert that appends whether or not the row exists
ensure_registry_entry_appends(reg, user_sheet_id, now_iso) ==
    LET ws == _ensure_registry_worksheet(reg)
    IN [ws EXCEPT !.rows = Append(@, <<user_sheet_id, "false", now_iso, now_iso, "", "">>)]

ensure_registry_entry(reg, user_sheet_id, now_iso) ==
    LET ws == _ensure_registry_worksheet(reg)
        idx == FindRow(_read_registry_rows(ws), user_sheet_id)
    IN IF idx # 0
       THEN registry_update_registry_row(ws, idx, << <<"last_seen_at", now_iso>> >>)
       ELSE [ws EXCEPT !.rows = Append(@, <<user_sheet_id, "false", now_iso, now_iso, "", "">>)]

\* a setter that creates the missing row and leaves it as created
set_registry_enabled_creates_only(reg, user_sheet_id, enabled, now_iso) ==
    LET ws == _ensure_registry_worksheet(reg)
        idx == FindRow(_read_registry_rows(ws), user_sheet_id)
    IN IF idx # 0
       THEN registry_update_registry_row(ws, idx,
                << <<"enabled", IF enabled THEN "true" ELSE "false">> >>)
       ELSE ensure_registry_entry(reg, user_sheet_id, now_iso)

RECURSIVE set_registry_enabled(_, _, _, _)
set_registry_enabled(reg, user_sheet_id, enabled, now_iso) ==
    LET ws == _ensure_registry_worksheet(reg)
        idx == FindRow(_read_registry_rows(ws), user_sheet_id)
    IN IF idx # 0
       THEN registry_update_registry_row(ws, idx,
                << <<"enabled", IF enabled THEN "true" ELSE "false">> >>)
       ELSE LET created == ensure_registry_entry(reg, user_sheet_id, now_iso)
            IN IF enabled
               THEN set_registry_enabled(created, user_sheet_id, enabled, now_iso)
               ELSE created

----------------------------------------------------------------------------
(* Direct calls of the registry: the UI's upsert and switch, the worker's
   status write *)

\* a registry worksheet just created, and one with its header row
FreshRegistry == [headers |-> <<>>, rows |-> <<>>]
HeadedRegistry == [headers |-> REGISTRY_HEADERS, rows |-> <<>>]

RegistryFrame(op, reg, before, t, flag, clock) ==
    [fn |-> "registry", op |-> op, reg |-> reg, before |-> before, t |-> t,
     flag |-> flag, clock |-> clock]

\* track_logger_app.py line 66: ensure_registry_entry(sheet_id)
RegEnsure ==
    /\ call.fn = "registry"
    /\ \E t \in Tenants :
         call' = RegistryFrame("ensure",
                               ensure_registry_entry(call.reg, t, now_utc_iso(call.clock)),
                               call.reg, t, FALSE, call.clock)
    /\ UNCHANGED worldVars

\* track_logger_app.py lines 118 and 128: set_registry_enabled(sheet_id, flag)
RegSetEnabled ==
    /\ call.fn = "registry"
    /\ \E t \in Tenants, flag \in BOOLEAN :
         call' = RegistryFrame("enable",
                               set_registry_enabled(call.reg, t, flag, now_utc_iso(call.clock)),
                               call.reg, t, flag, call.clock)
    /\ UNCHANGED worldVars

\* worker.py lines 86-97: the status write of the batch for the row of a
\* tenant, after a pass that returned (flag) or raised
RegStatus ==
    /\ call.fn = "registry"
    /\ \E i \in 1..Len(call.reg.rows), flag \in BOOLEAN :
         LET rows == _read_registry_rows(call.reg)
             updates == IF flag
                        THEN << <<"last_sync_at", now_utc_iso(call.clock)>>,
                                <<"last_error", "">> >>
                        ELSE << <<"last_error", "HTTPError: recently-played">> >>
         IN call' = RegistryFrame("status", _update_registry_row(call.reg, i, updates),
                                  call.reg, Strip(RowGet(rows[i], "user_sheet_id")),
                                  flag, call.clock)
    /\ UNCHANGED worldVars

\* time passes between two calls
RegTick ==
    /\ call.fn = "registry"
    /\ call.clock < MaxTicks
    /\ call' = [call EXCEPT !.op = "none", !.before = call.reg, !.clock = @ + 1]
    /\ UNCHANGED worldVars

----------------------------------------------------------------------------
(* Direct calls of the vault: encrypt, store, decrypt *)

\* ---------------------------------------------------------------------------
\* set_registry_enabled, one activation at a time: the function calls itself
\* after the auto-create, so each activation is a step and the nesting depth
\* is part of the state
\* ---------------------------------------------------------------------------
MaxDepth == 3
EnableIds == Tenants \cup PaddedIds

EnableFrame(pc, reg, before, t, flag, depth, clock) ==
    [fn |-> "enable", pc |-> pc, reg |-> reg, before |-> before, t |-> t,
     flag |-> flag, depth |-> depth, clock |-> clock]

\* an activation whose search loop finds the row: update it and return
EnableFound ==
    /\ call.fn = "enable" /\ call.pc = "call"
    /\ LET ws == _ensure_registry_worksheet(call.reg)
           idx == FindRow(_read_registry_rows(ws), call.t)
       IN /\ idx # 0
          /\ call' = [call EXCEPT
                 !.reg = registry_update_registry_row(ws, idx,
                            << <<"enabled", IF call.flag THEN "true" ELSE "false">> >>),
                 !.pc = "returned"]
    /\ UNCHANGED worldVars

\* an activation whose search loop finds no row: ensure_registry_entry, then
\* the nested activation when enabling
EnableCreate ==
    /\ call.fn = "enable" /\ call.pc = "call"
    /\ call.depth < MaxDepth
    /\ LET ws == _ensure_registry_worksheet(call.reg)
           idx == FindRow(_read_registry_rows(ws), call.t)
       IN /\ idx = 0
          /\ call' = [call EXCEPT
                 !.reg = ensure_registry_entry(call.reg, call.t, now_utc_iso(call.clock)),
                 !.pc = IF call.flag THEN "call" ELSE "returned",
                 !.depth = IF call.flag THEN @ + 1 ELSE @]
    /\ UNCHANGED worldVars

\* the next click on Enable or Disable
EnableAgain ==
    /\ call.fn = "enable" /\ call.pc = "returned"
    /\ call.clock < MaxTicks
    /\ \E t \in EnableIds, flag \in BOOLEAN :
         call' = EnableFrame("call", call.reg, call.reg, t, flag, 0, call.clock + 1)
    /\ UNCHANGED worldVars

\* ciphertexts that no encrypt_refresh_token call made
ForeignCiphertexts == {"", "not-a-token"}

VaultFrame(stage, key, pt, ct, origin, res) ==
    [fn |-> "vault", stage |-> stage, key |-> key, pt |-> pt, ct |-> ct,
     origin |-> origin, res |-> res]

\* encrypt_refresh_token(pt) under the configured key; the ciphertext is stored
VaultEncrypt ==
    /\ call.fn = "vault" /\ call.stage = "start"
    /\ \E pt \in RefreshTokens, iv \in IVs :
         call' = VaultFrame("stored", call.key, pt,
                            encrypt_refresh_token(call.key, iv, pt), "encrypt", NoResult)
    /\ UNCHANGED worldVars

\* the stored cell is empty or holds text that is no token
VaultStoreForeign ==
    /\ call.fn = "vault" /\ call.stage = "start"
    /\ \E ct \in ForeignCiphertexts :
         call' = VaultFrame("stored", call.key, "", ct,
                            IF ct = "" THEN "empty" ELSE "malformed", NoResult)
    /\ UNCHANGED worldVars

\* the deployment's FERNET_KEY is replaced after the ciphertext was stored
VaultRekey ==
    /\ call.fn = "vault" /\ call.stage = "stored" /\ call.origin = "encrypt"
    /\ \E k \in Secrets \ {call.key} :
         call' = [call EXCEPT !.key = k, !.origin = "otherkey"]
    /\ UNCHANGED worldVars

\* decrypt_refresh_token(ct) under the configured key
VaultDecrypt ==
    /\ call.fn = "vault" /\ call.stage = "stored"
    /\ call' = [call EXCEPT !.stage = "decrypted",
                            !.res = decrypt_refresh_token(call.key, call.ct)]
    /\ UNCHANGED worldVars

VaultReturn ==
    /\ call.fn = "vault" /\ call.stage = "decrypted"
    /\ call' = [call EXCEPT !.stage = "start"]
    /\ UNCHANGED worldVars

----------------------------------------------------------------------------
(* Direct calls of read_recent_dedupe_keys on a dedupe section *)

DedupeFrame(stage, ss, limit, res) ==
    [fn |-> "dedupe", stage |-> stage, ss |-> ss, limit |-> limit, res |-> res]

Limits == (0 - 1)..MaxLimit
SampleKeys == {"u1|a", "u1|b", "u1|c"}

DedupeAppend ==
    /\ call.fn = "dedupe" /\ call.stage = "open"
    /\ Len(call.ss.dedupe) < MaxKeys
    /\ \E k \in SampleKeys :
         call' = [call EXCEPT !.ss = append_dedupe_keys(call.ss, <<k>>)]
    /\ UNCHANGED worldVars

DedupeRead ==
    /\ call.fn = "dedupe" /\ call.stage = "open"
    /\ call' = [call EXCEPT !.stage = "read",
                            !.ss = read_recent_dedupe_keys_effect(call.ss),
                            !.res = read_recent_dedupe_keys(call.ss, call.limit)]
    /\ UNCHANGED worldVars

DedupeReturn ==
    /\ call.fn = "dedupe" /\ call.stage = "read"
    /\ \E l \in Limits : call' = [call EXCEPT !.stage = "open", !.limit = l, !.res = <<>>]
    /\ UNCHANGED worldVars

----------------------------------------------------------------------------
(* Direct calls of prepare_user_sheet on a spreadsheet in any condition *)

\* first rows a worksheet may hold before the system touches it
HeaderVariants(expected) ==
    {<<>>, expected, Append(expected, "Notes"), <<"Played">>, <<"Played", "Song">>}

\* rows 2.. of __app_state before the system touches it
StateRowVariants ==
    {<<>>,
     << <<"enabled", "true">>, <<"refresh_token_enc", "gAAAA.k1.iv1.rt0">> >>,
     DefaultStateRows("UTC", IsoText(0))}

\* the spreadsheets a user may hand over: any subset of the worksheets, any
\* first rows, state rows, one or no dedupe key and log row, any hidden flags
InitialSpreadsheets ==
    {[sheets |-> present,
      header |-> [t \in Titles |->
                    IF t \notin present THEN <<>>
                    ELSE IF t = LOG_SHEET_TITLE THEN hl
                    ELSE IF t = APP_STATE_TITLE THEN hs
                    ELSE IF t = DEDUPE_TITLE THEN hd
                    ELSE <<>>],
      hidden |-> [t \in Titles |-> t \in present /\ t # LOG_SHEET_TITLE /\ hid],
      state |-> IF APP_STATE_TITLE \in present THEN rows ELSE <<>>,
      dedupe |-> IF DEDUPE_TITLE \in present /\ filled THEN <<"u1|a">> ELSE <<>>,
      log |-> IF LOG_SHEET_TITLE \in present /\ filled
              THEN << <<"January 1, 1970 at 12:40AM", "Song", "Band", "a", "">> >>
              ELSE <<>>] :
        present \in SUBSET Titles,
        hl \in HeaderVariants(LOG_HEADERS),
        hs \in {<<>>, APP_STATE_HEADERS, Append(APP_STATE_HEADERS, "Notes")},
        hd \in {<<>>, DEDUPE_HEADERS, <<"key">>},
        rows \in StateRowVariants,
        hid \in BOOLEAN,
        filled \in BOOLEAN}

SchemaFrame(initial, ss, prev, calls, timezone, clock) ==
    [fn |-> "schema", initial |-> initial, ss |-> ss, prev |-> prev, calls |-> calls,
     timezone |-> timezone, clock |-> clock]

\* prepare_user_sheet(ss, timezone), called again right after the previous call
SchemaPrepare ==
    /\ call.fn = "schema" /\ call.clock < MaxClock
    /\ \E accepted \in HideOutcomes :
         call' = [call EXCEPT !.prev = call.ss,
                              !.ss = prepare_user_sheet(call.ss, call.timezone,
                                                        now_utc_iso(call.clock + 1), accepted),
                              !.calls = @ + 1,
                              !.clock = @ + 1]
    /\ UNCHANGED worldVars

----------------------------------------------------------------------------
(* Direct calls of the store operations on a spreadsheet in any condition *)

\* rows 2.. of __app_state: none, some keys, all keys, and rows with a key
\* the system does not know and a key given twice
StoreStateRows ==
    StateRowVariants
    \cup {<< <<"timezone", "Europe/Amsterdam">>, <<"theme", "dark">>,
              <<"timezone", "UTC">>, <<"last_error", "boom">> >>}

\* the spreadsheets the calls start from
StoreSpreadsheets ==
    {ss \in InitialSpreadsheets :
        /\ ss.sheets \in {{}, {LOG_SHEET_TITLE}, Titles}
        /\ \A t \in Titles : ~ss.hidden[t]
        /\ DEDUPE_TITLE \in ss.sheets => ss.header[DEDUPE_TITLE] = DEDUPE_HEADERS
        /\ APP_STATE_TITLE \in ss.sheets => ss.header[APP_STATE_TITLE] # <<>>}
    \cup {[ss EXCEPT !.state = rows] :
             ss \in {x \in InitialSpreadsheets :
                        /\ x.sheets = Titles /\ \A t \in Titles : ~x.hidden[t]
                        /\ x.header = [t \in Titles |->
                                          IF t = LOG_SHEET_TITLE THEN LOG_HEADERS
                                          ELSE IF t = APP_STATE_TITLE THEN APP_STATE_HEADERS
                                          ELSE IF t = DEDUPE_TITLE THEN DEDUPE_HEADERS
                                          ELSE <<>>]},
             rows \in StoreStateRows}

\* the updates a write_app_state call is given
StateUpdates ==
    {<< <<"updated_at", IsoText(0)>> >>,
     << <<"enabled", "true">>, <<"last_error", "">> >>,
     << <<"last_synced_after_ts", "2400000">> >>}

\* the rows an append_log_rows call is given
LogRowBatches == {<<>>, <<LogRow(ParseItem(Play(1)), "UTC")>>,
                  <<LogRow(ParseItem(Play(2)), "UTC"), LogRow(ParseItem(Play(1)), "UTC")>>}

StoreFrame(op, ss, before, res, updates, clock) ==
    [fn |-> "store", op |-> op, ss |-> ss, before |-> before, res |-> res,
     updates |-> updates, clock |-> clock]

NoState == read_app_state(EmptySpreadsheet)

StorePrepare ==
    /\ call.fn = "store" /\ call.clock < MaxClock
    /\ \E accepted \in HideOutcomes :
         call' = StoreFrame("prepare",
                            prepare_user_sheet(call.ss, "UTC", now_utc_iso(call.clock + 1),
                                               accepted),
                            call.ss, NoState, <<>>, call.clock + 1)
    /\ UNCHANGED worldVars

StoreFixHeaders ==
    /\ call.fn = "store" /\ call.clock < MaxClock
    /\ call' = StoreFrame("fix_headers", fix_log_headers(call.ss), call.ss, NoState, <<>>,
                          call.clock + 1)
    /\ UNCHANGED worldVars

StoreReadState ==
    /\ call.fn = "store" /\ call.clock < MaxClock
    /\ call' = StoreFrame("read", read_app_state_effect(call.ss), call.ss,
                          read_app_state(call.ss), <<>>, call.clock + 1)
    /\ UNCHANGED worldVars

StoreWriteState ==
    /\ call.fn = "store" /\ call.clock < MaxClock
    /\ \E updates \in StateUpdates :
         call' = StoreFrame("write", write_app_state(call.ss, updates), call.ss, NoState,
                            updates, call.clock + 1)
    /\ UNCHANGED worldVars

StoreAppendLog ==
    /\ call.fn = "store" /\ call.clock < MaxClock
    /\ \E rows \in LogRowBatches :
         call' = StoreFrame("append_log", append_log_rows(call.ss, rows), call.ss, NoState,
                            rows, call.clock + 1)
    /\ UNCHANGED worldVars

----------------------------------------------------------------------------
(* Direct calls of the query floor and the history request it is passed to *)

\* the texts the cursor cell may hold: numbers, nothing, and no number
CursorTexts == {Str(n) : n \in Numerals} \cup {"", "soon"}

\* the configured lookback, in minutes
Lookbacks == {0, 20, LookbackMinutes, 100}

\* the provider's history: every play of the model, newest first
FullHistory == [i \in 1..MaxT |-> Play(MaxT + 1 - i)]

FloorFrame(stage, text, lookback_minutes, res, items) ==
    [fn |-> "floor", stage |-> stage, last_synced_after_ts |-> text,
     lookback_minutes |-> lookback_minutes, res |-> res, items |-> items]

\* worker.py line 151: after_ms = _compute_after_ms(state, lookback)
FloorCompute ==
    /\ call.fn = "floor" /\ call.stage = "args"
    /\ call' = FloorFrame("floor", call.last_synced_after_ts, call.lookback_minutes,
                          _compute_after_ms([NoState EXCEPT !.last_synced_after_ts =
                                                call.last_synced_after_ts],
                                            call.lookback_minutes),
                          <<>>)
    /\ UNCHANGED worldVars

\* worker.py lines 152-157: the history request with that floor
FloorFetch ==
    /\ call.fn = "floor" /\ call.stage = "floor"
    /\ call' = [call EXCEPT !.stage = "fetched",
                            !.items = parse_recently_played_items(
                                          get_recently_played(FullHistory, RecentlyPlayedLimit,
                                                              call.res))]
    /\ UNCHANGED worldVars

----------------------------------------------------------------------------
(* Two writers of one tenant's state: write_app_state step by step *)

\* the writers: the Enable/Disable button of the UI and the final state
\* write of a pass
Writers == {"button", "final_write"}

\* the tenant both write to
RaceTenant == "sheetA"

RaceFrame(w, order) == [fn |-> "race", w |-> w, order |-> order]

\* track_logger_app.py lines 116-118 and 126-128: the button sets the flag
\* of the registry and goes on to write_app_state
WriterRegistry ==
    /\ call.fn = "race" /\ call.w["button"].pc = "registry"
    /\ registry' = set_registry_enabled(registry, RaceTenant,
                                        call.w["button"].updates[1][2] = "true",
                                        now_utc_iso(now))
    /\ call' = [call EXCEPT !.w["button"].pc = "read"]
    /\ UNCHANGED <<store, upstream, provider, pass, batch, now, obs>>

\* sheet_structure.py lines 143-146: the worksheet, its header row, and all
\* rows read into a dict
WriterRead(w) ==
    /\ call.fn = "race" /\ call.w[w].pc = "read"
    /\ LET a == _ensure_headers(get_or_create_worksheet(store[RaceTenant], APP_STATE_TITLE),
                                APP_STATE_TITLE, APP_STATE_HEADERS)
       IN /\ store' = [store EXCEPT ![RaceTenant] = a]
          /\ call' = [call EXCEPT !.w[w].pc = "write",
                                  !.w[w].current = DictFrom(<<>>, a.state),
                                  !.order = Append(@, <<w, "read">>)]
    /\ UNCHANGED <<registry, upstream, provider, pass, batch, now, obs>>

\* a write that reads the rows again at the moment it writes
WriterWrite_rereads(w) ==
    /\ call.fn = "race" /\ call.w[w].pc = "write"
    /\ store' = [store EXCEPT ![RaceTenant] = write_app_state(@, call.w[w].updates)]
    /\ call' = [call EXCEPT !.w[w].pc = "done", !.order = Append(@, <<w, "write">>)]
    /\ UNCHANGED <<registry, upstream, provider, pass, batch, now, obs>>

\* sheet_structure.py lines 147-158: the updates and the defaults go into
\* the dict that was read, and the dict is written over all rows
WriterWrite(w) ==
    /\ call.fn = "race" /\ call.w[w].pc = "write"
    /\ store' = [store EXCEPT ![RaceTenant].state =
                    DictWithDefaults(DictFrom(call.w[w].current, call.w[w].updates),
                                     APP_STATE_DEFAULTS)]
    /\ call' = [call EXCEPT !.w[w].pc = "done", !.order = Append(@, <<w, "write">>)]
    /\ UNCHANGED <<registry, upstream, provider, pass, batch, now, obs>>

----------------------------------------------------------------------------
(* Specifications of the direct calls *)

InitVault ==
    /\ Quiet
    /\ \E k \in Secrets : call = VaultFrame("start", k, "", "", "none", NoResult)

NextVault ==
    \/ VaultEncrypt
    \/ VaultStoreForeign
    \/ VaultRekey
    \/ VaultDecrypt
    \/ VaultReturn

SpecVault == InitVault /\ [][NextVault]_vars

InitDedupe ==
    /\ Quiet
    /\ \E l \in Limits : call = DedupeFrame("open", EmptySpreadsheet, l, <<>>)

NextDedupe ==
    \/ DedupeAppend
    \/ DedupeRead
    \/ DedupeReturn

SpecDedupe == InitDedupe /\ [][NextDedupe]_vars

InitSchema ==
    /\ Quiet
    /\ \E ss \in InitialSpreadsheets, tz \in {None, "Europe/Amsterdam"} :
         call = SchemaFrame(ss, ss, ss, 0, tz, 0)

NextSchema ==
    \/ SchemaPrepare

SpecSchema == InitSchema /\ [][NextSchema]_vars

InitRegistry ==
    /\ Quiet
    /\ \E reg \in {FreshRegistry, HeadedRegistry} :
         call = RegistryFrame("none", reg, reg, "", FALSE, 0)

NextRegistry ==
    \/ RegEnsure
    \/ RegSetEnabled
    \/ RegStatus
    \/ RegTick

SpecRegistry == InitRegistry /\ [][NextRegistry]_vars

InitEnable ==
    /\ Quiet
    /\ \E reg \in {FreshRegistry, HeadedRegistry}, t \in EnableIds, flag \in BOOLEAN :
         call = EnableFrame("call", reg, reg, t, flag, 0, 0)

NextEnable ==
    \/ EnableFound
    \/ EnableCreate
    \/ EnableAgain

SpecEnable == InitEnable /\ [][NextEnable]_vars

InitStore ==
    /\ Quiet
    /\ \E ss \in StoreSpreadsheets : call = StoreFrame("none", ss, ss, NoState, <<>>, 0)

NextStore ==
    \/ StorePrepare
    \/ StoreFixHeaders
    \/ StoreReadState
    \/ StoreWriteState
    \/ StoreAppendLog

SpecStore == InitStore /\ [][NextStore]_vars

InitFloor ==
    /\ Quiet
    /\ \E text \in CursorTexts, lookback_minutes \in Lookbacks :
         call = FloorFrame("args", text, lookback_minutes, NoInt, <<>>)

NextFloor ==
    \/ FloorCompute
    \/ FloorFetch

SpecFloor == InitFloor /\ [][NextFloor]_vars

\* _make_dedupe_key applied to two triples
SeparatorFree == {"", "a", "b"}
KeyParts == SeparatorFree \cup {"a|b", "b|a"}
KeyTriples == KeyParts \X KeyParts \X KeyParts

KeyFrame(stage, x, y, kx, ky) ==
    [fn |-> "key", stage |-> stage, x |-> x, y |-> y, kx |-> kx, ky |-> ky]

KeyCompute ==
    /\ call.fn = "key" /\ call.stage = "start"
    /\ call' = [call EXCEPT !.stage = "first",
                            !.kx = _make_dedupe_key(call.x[1], call.x[2], call.x[3])]
    /\ UNCHANGED worldVars

KeyCompare ==
    /\ call.fn = "key" /\ call.stage = "first"
    /\ call' = [call EXCEPT !.stage = "both",
                            !.ky = _make_dedupe_key(call.y[1], call.y[2], call.y[3])]
    /\ UNCHANGED worldVars

InitKey ==
    /\ Quiet
    /\ \E x \in KeyTriples, y \in KeyTriples : call = KeyFrame("start", x, y, None, None)

NextKey ==
    \/ KeyCompute
    \/ KeyCompare

SpecKey == InitKey /\ [][NextKey]_vars

----------------------------------------------------------------------------
(* Specification of repeated passes of one tenant, run from the UI *)

\* a spreadsheet as "Check access / Prepare sheet" leaves it, with the
\* credentials written to its state
PreparedSpreadsheet(spotify_user_id, refresh_token_enc) ==
    write_app_state(prepare_user_sheet(EmptySpreadsheet, "UTC", IsoText(0),
                                       [t \in Titles |-> TRUE]),
                    << <<"enabled", "true">>,
                       <<"spotify_user_id", spotify_user_id>>,
                       <<"refresh_token_enc", refresh_token_enc>> >>)

\* the stored credential: none, one made under the deployment's key, or one
\* made under another key
StoredCredentials ==
    {"", encrypt_refresh_token(FERNET_KEY, "iv1", "rt0"),
     encrypt_refresh_token("k2", "iv1", "rt0")}

InitPass ==
    /\ registry = [headers |-> REGISTRY_HEADERS, rows |-> <<>>]
    /\ \E uid \in {"", "u1"}, enc \in StoredCredentials, rot \in BOOLEAN :
         /\ (uid = "" \/ rot) => enc = encrypt_refresh_token(FERNET_KEY, "iv1", "rt0")
         /\ uid = "" => ~rot
         /\ store = [t \in Tenants |-> IF t = "sheetA" THEN PreparedSpreadsheet(uid, enc)
                                       ELSE EmptySpreadsheet]
         /\ provider = [t \in Tenants |-> [account_id |-> "u1", refresh_token |-> "rt0",
                                           rotates |-> rot]]
    /\ \E list \in {<<>>, IncompleteItems} : upstream = [t \in Tenants |-> list]
    /\ pass = [p \in Procs |-> IdlePass]
    /\ batch = IdleBatch
    /\ now = 0
    /\ obs = NoObs
    /\ call = NoCall

PassSteps ==
    \/ \E p \in Procs : PassOpen(p)
    \/ \E p \in Procs : PassPrepare(p)
    \/ \E p \in Procs : PassReadState(p)
    \/ \E p \in Procs : PassDecrypt(p)
    \/ \E p \in Procs : PassRefresh(p)
    \/ \E p \in Procs : PassPersistToken(p)
    \/ \E p \in Procs : PassUserId(p)
    \/ \E p \in Procs : PassPersistUser(p)
    \/ \E p \in Procs : PassFetch(p)
    \/ \E p \in Procs : PassNoItems(p)
    \/ \E p \in Procs : PassReadDedupe(p)
    \/ \E p \in Procs : PassDedupe(p)
    \/ \E p \in Procs : PassAppendLog(p)
    \/ \E p \in Procs : PassAppendDedupe(p)
    \/ \E p \in Procs : PassFinalWrite(p)

NextPass ==
    \/ RunSyncNow("sheetA")
    \/ UiAfterSync
    \/ ProviderRecords("sheetA")
    \/ PassSteps

SpecPass == InitPass /\ [][NextPass]_vars

\* the same, with a provider that may list a play twice
NextRepeat ==
    \/ RunSyncNow("sheetA")
    \/ UiAfterSync
    \/ ProviderRecords("sheetA")
    \/ ProviderRepeats("sheetA")
    \/ PassSteps

SpecRepeat == InitPass /\ [][NextRepeat]_vars

----------------------------------------------------------------------------
(* Specification of the scheduled worker over a registry of two tenants and
   a row whose id cell is blank *)

\* what a tenant's spreadsheet, account history and provider look like
TenantKinds == {"healthy", "fresh", "missing", "wrongkey"}

KindStore(kind) ==
    CASE kind = "healthy" ->
            PreparedSpreadsheet("u1", encrypt_refresh_token(FERNET_KEY, "iv1", "rt0"))
      [] kind = "fresh" ->
            PreparedSpreadsheet("", encrypt_refresh_token(FERNET_KEY, "iv1", "rt0"))
      [] kind = "missing" -> PreparedSpreadsheet("u1", "")
      [] kind = "wrongkey" ->
            PreparedSpreadsheet("u1", encrypt_refresh_token("k2", "iv1", "rt0"))

\* a registry row as ensure_registry_entry and earlier runs left it
RegistryRow(user_sheet_id, enabled) ==
    <<user_sheet_id, enabled, IsoText(0), IsoText(0), IsoText(0), "stale error">>

Init ==
    /\ \E order \in {<<"sheetA", "sheetB">>, <<"sheetB", "sheetA">>},
          enabledA \in {"TRUE", "false"} :
         registry =
            [headers |-> REGISTRY_HEADERS,
             rows |-> [i \in 1..2 |-> RegistryRow(order[i],
                                          IF order[i] = "sheetA" THEN enabledA ELSE "true")]
                      \o <<RegistryRow(" ", "true")>>]
    /\ \E kind \in [Tenants -> TenantKinds] :
         /\ store = [t \in Tenants |-> KindStore(kind[t])]
         /\ upstream = [t \in Tenants |-> IF kind[t] = "fresh" THEN <<>> ELSE <<Play(1)>>]
         /\ provider = [t \in Tenants |->
                           [account_id |-> "u1", refresh_token |-> "rt0",
                            rotates |-> (kind[t] = "fresh")]]
    /\ pass = [p \in Procs |-> IdlePass]
    /\ batch = IdleBatch
    /\ now = 0
    /\ obs = NoObs
    /\ call = NoCall

Next ==
    \/ RunBatch
    \/ BatchIter
    \/ BatchWriteOk
    \/ BatchCatch
    \/ BatchHandler
    \/ BatchDone
    \/ BatchExit
    \/ PassSteps

Spec == Init /\ [][Next]_vars

\* the batch over sheets whose AppState already holds a last_error text
OldError == "old error"

InitErrors ==
    /\ \E order \in {<<"sheetA", "sheetB">>, <<"sheetB", "sheetA">>},
          enabledA \in {"TRUE", "false"} :
         registry =
            [headers |-> REGISTRY_HEADERS,
             rows |-> [i \in 1..2 |-> RegistryRow(order[i],
                                          IF order[i] = "sheetA" THEN enabledA ELSE "true")]
                      \o <<RegistryRow(" ", "true")>>]
    /\ \E kind \in [Tenants -> TenantKinds], stale \in {"", OldError} :
         /\ store = [t \in Tenants |->
                        write_app_state(KindStore(kind[t]), << <<"last_error", stale>> >>)]
         /\ upstream = [t \in Tenants |-> IF kind[t] = "fresh" THEN <<>> ELSE <<Play(1)>>]
         /\ provider = [t \in Tenants |->
                           [account_id |-> "u1", refresh_token |-> "rt0",
                            rotates |-> (kind[t] = "fresh")]]
    /\ pass = [p \in Procs |-> IdlePass]
    /\ batch = IdleBatch
    /\ now = 0
    /\ obs = NoObs
    /\ call = NoCall

SpecErrors == InitErrors /\ [][Next]_vars

\* two runs of the batch over two enabled tenants
InitRetry ==
    /\ registry = [headers |-> REGISTRY_HEADERS,
                   rows |-> <<RegistryRow("sheetA", "true"), RegistryRow("sheetB", "true")>>]
    /\ \E kindA \in {"healthy", "fresh"} :
         /\ store = [t \in Tenants |-> KindStore(IF t = "sheetA" THEN kindA ELSE "healthy")]
         /\ upstream = [t \in Tenants |-> IF t = "sheetA" /\ kindA = "fresh" THEN <<>>
                                           ELSE <<Play(1)>>]
         /\ provider = [t \in Tenants |->
                           [account_id |-> "u1", refresh_token |-> "rt0",
                            rotates |-> (t = "sheetA" /\ kindA = "fresh")]]
    /\ pass = [p \in Procs |-> IdlePass]
    /\ batch = IdleBatch
    /\ now = 0
    /\ obs = NoObs
    /\ call = NoCall

NextRetry ==
    \/ RunBatch
    \/ RunBatchAgain
    \/ BatchIter
    \/ BatchWriteOk
    \/ BatchCatch
    \/ BatchHandler
    \/ BatchDone
    \/ BatchExit
    \/ PassSteps

SpecRetry == InitRetry /\ [][NextRetry]_vars

\* the part of a pass behind the history request (worker.py lines 163-210),
\* for a tenant that has logged the plays 1..n: the response holds any of
\* the model's plays, newest first
LoggedSpreadsheet(n) ==
    append_dedupe_keys(
        append_log_rows(PreparedSpreadsheet("u1",
                                            encrypt_refresh_token(FERNET_KEY, "iv1", "rt0")),
                        [k \in 1..n |-> LogRow(ParseItem(Play(k)), "UTC")]),
        [k \in 1..n |-> _make_dedupe_key("u1", ParseItem(Play(k)).played_at,
                                          ParseItem(Play(k)).track_id)])

Responses ==
    {FilterAfter(FullHistory, SomeInt(0)), <<Play(1)>>, <<Play(2), Play(1)>>,
     <<Play(MaxT), Play(1)>>, <<Play(MaxT)>>, <<Play(3), Play(2)>>}

InitWindow ==
    /\ registry = [headers |-> REGISTRY_HEADERS, rows |-> <<>>]
    /\ \E n \in 0..MaxKeys :
         /\ n <= MaxT
         /\ \E ss \in {LoggedSpreadsheet(n)} :
              /\ store = [t \in Tenants |-> IF t = "sheetA" THEN ss ELSE EmptySpreadsheet]
              /\ obs = [NoObs EXCEPT !.entry["ui"] = ss]
              /\ \E response \in Responses :
                   \E state \in {read_app_state(ss)},
                      items \in {parse_recently_played_items(response)} :
                        pass = [p \in Procs |->
                                  IF p = "ui"
                                  THEN [EnterPass("sheetA") EXCEPT
                                           !.pc = "read_dedupe",
                                           !.state = state,
                                           !.refresh_token = "rt0",
                                           !.tokens = [access_token |-> "at-u1",
                                                       refresh_token |-> "rt0"],
                                           !.spotify_user_id = "u1",
                                           !.items = items]
                                  ELSE IdlePass]
    /\ upstream = [t \in Tenants |-> <<>>]
    /\ provider = [t \in Tenants |-> [account_id |-> "u1", refresh_token |-> "rt0",
                                       rotates |-> FALSE]]
    /\ batch = IdleBatch
    /\ now = 1
    /\ call = NoCall

NextWindow ==
    \/ \E p \in Procs : PassReadDedupe(p)
    \/ \E p \in Procs : PassDedupe(p)
    \/ \E p \in Procs : PassAppendLog(p)
    \/ \E p \in Procs : PassAppendDedupe(p)
    \/ \E p \in Procs : PassFinalWrite(p)
    \/ UiAfterSync

SpecWindow == InitWindow /\ [][NextWindow]_vars

\* a batch run, and the button pressed for a tenant while the batch is
\* inside a pass
NextOverlap ==
    \/ RunBatch
    \/ \E t \in Tenants : RunSyncNowDuringBatch(t)
    \/ UiAfterSync
    \/ BatchIter
    \/ BatchWriteOk
    \/ BatchCatch
    \/ BatchHandler
    \/ BatchDone
    \/ BatchExit
    \/ PassSteps

SpecOverlap == InitRetry /\ [][NextOverlap]_vars

\* the button is pressed while a pass is at its final state write
InitRace ==
    /\ registry = [headers |-> REGISTRY_HEADERS,
                   rows |-> <<RegistryRow(RaceTenant, "true")>>]
    /\ \E uid \in {"", "u1"}, was \in {"true", "false"} :
         store = [t \in Tenants |->
                    IF t = RaceTenant
                    THEN write_app_state(
                             PreparedSpreadsheet(uid,
                                 encrypt_refresh_token(FERNET_KEY, "iv1", "rt0")),
                             << <<"enabled", was>> >>)
                    ELSE EmptySpreadsheet]
    /\ upstream = [t \in Tenants |-> <<>>]
    /\ provider = [t \in Tenants |-> [account_id |-> "u1", refresh_token |-> "rt0",
                                       rotates |-> FALSE]]
    /\ pass = [p \in Procs |-> IdlePass]
    /\ batch = IdleBatch
    /\ now = 1
    /\ obs = NoObs
    /\ \E flag \in {"true", "false"}, max_played_at_ms \in {0} \cup Instants :
         call = RaceFrame(
                    [w \in Writers |->
                        IF w = "button"
                        THEN [pc |-> "registry", current |-> <<>>,
                              updates |-> << <<"enabled", flag>> >>]
                        ELSE [pc |-> "read", current |-> <<>>,
                              updates |-> FinalUpdates(max_played_at_ms, now_utc_iso(1),
                                                       NoState)]],
                    <<>>)

NextRace ==
    \/ WriterRegistry
    \/ \E w \in Writers : WriterRead(w)
    \/ \E w \in Writers : WriterWrite(w)

SpecRace == InitRace /\ [][NextRace]_vars

----------------------------------------------------------------------------
(* Claims about the vault *)

\* C8: decrypt_refresh_token(encrypt_refresh_token(x)) under the same secret
\* returns x, for every secret and every plaintext, the empty string included.
VaultRoundTrip ==
    (call.fn = "vault" /\ call.stage = "decrypted" /\ call.origin = "encrypt")
        => (call.res.ok /\ call.res.value = call.pt)

\* a round trip of the empty plaintext has been made
VaultRoundTripWitness ==
    /\ call.fn = "vault" /\ call.stage = "decrypted" /\ call.origin = "encrypt"
    /\ call.pt = "" /\ call.res.ok

\* C9: decrypt_refresh_token fails with one and the same error kind, the
\* decryption error InvalidToken, when the ciphertext is empty, malformed or
\* made under another secret, and returns no plaintext in any of these cases.
VaultRejectsWithOneKind ==
    (call.fn = "vault" /\ call.stage = "decrypted"
        /\ call.origin \in {"empty", "malformed", "otherkey"})
        => (~call.res.ok /\ call.res.kind = "InvalidToken")

----------------------------------------------------------------------------
(* Claims about the dedupe window *)

IsLastOf(res, keys) ==
    /\ Len(res) <= Len(keys)
    /\ \A i \in 1..Len(res) : res[i] = keys[Len(keys) - Len(res) + i]

\* C10 as stated: for every integer limit, read_recent_dedupe_keys(limit)
\* returns at most limit keys, the most recently appended ones in append order.
DedupeReadAtMostLimit ==
    (call.fn = "dedupe" /\ call.stage = "read")
        => /\ Len(call.res) <= call.limit
           /\ IsLastOf(call.res, call.ss.dedupe)

\* C10 amended: for every limit >= 1 the call returns the min(limit, n) most
\* recently appended of the n keys, in append order; for a limit <= 0 it
\* returns all n keys.
DedupeReadWindow ==
    (call.fn = "dedupe" /\ call.stage = "read")
        => /\ IsLastOf(call.res, call.ss.dedupe)
           /\ call.limit >= 1 => Len(call.res) = Min(call.limit, Len(call.ss.dedupe))
           /\ call.limit <= 0 => Len(call.res) = Len(call.ss.dedupe)

\* a read that cut a section of distinct keys down to the window
DedupeReadWindowWitness ==
    /\ call.fn = "dedupe" /\ call.stage = "read"
    /\ call.limit >= 1 /\ Len(call.ss.dedupe) > call.limit
    /\ Len(call.res) = call.limit
    /\ call.res[1] # call.ss.dedupe[1]

----------------------------------------------------------------------------
(* Claims about the schema *)

SameSchema(a, b) ==
    /\ a.sheets = b.sheets
    /\ a.header = b.header
    /\ a.state = b.state
    /\ a.dedupe = b.dedupe
    /\ a.log = b.log

\* C7 as stated: whatever the initial condition of the store, a second
\* prepare_user_sheet call in a row performs no change: the spreadsheet after
\* it is the spreadsheet after the first call.
SchemaSecondCallChangesNothing ==
    (call.fn = "schema" /\ call.calls >= 2) => call.ss = call.prev

\* C7 amended: whatever the initial condition of the store, a second
\* prepare_user_sheet call in a row leaves the set of sections, every header
\* row, the state rows and the data rows as the first call left them; it may
\* only hide a section whose hide request the first call had refused.
SchemaIdempotent ==
    (call.fn = "schema" /\ call.calls >= 2)
        => /\ SameSchema(call.ss, call.prev)
           /\ \A t \in Titles : call.prev.hidden[t] => call.ss.hidden[t]

\* two calls in a row on a spreadsheet that lacked sections, where the first
\* call created __app_state with its default rows and repaired a log header
SchemaIdempotentWitness ==
    /\ call.fn = "schema" /\ call.calls = 2
    /\ APP_STATE_TITLE \notin call.initial.sheets
    /\ LOG_SHEET_TITLE \in call.initial.sheets
    /\ call.initial.header[LOG_SHEET_TITLE] = <<"Played", "Song">>
    /\ call.ss.header[LOG_SHEET_TITLE] = LOG_HEADERS
    /\ Len(call.ss.state) = Len(APP_STATE_DEFAULTS)

----------------------------------------------------------------------------
(* Claims about one tenant's passes *)

\* the cursor a spreadsheet's state holds, 0 when it is not a number
CursorOf(ss) ==
    LET parsed == ParseInt(read_app_state(ss).last_synced_after_ts)
    IN IF parsed.ok THEN parsed.value ELSE 0

\* the plays among the items a pass fetched
FetchedPlays(items) == {k \in 1..MaxT : ParseItem(Play(k)) \in SeqToSet(items)}

\* the log row and the dedupe key the account's play k gets
RowOfPlay(k) == LogRow(ParseItem(Play(k)), "UTC")
KeyOfPlay(k) == _make_dedupe_key("u1", ParseItem(Play(k)).played_at, ParseItem(Play(k)).track_id)

\* C1: after every pass that returns, the persisted last_synced_after_ts is
\* greater than or equal to its value when the pass was entered.
CursorNeverRegresses ==
    pass["ui"].pc = "returned"
        => CursorOf(store[pass["ui"].tenant]) >= CursorOf(obs.entry["ui"])

\* rows and keys of a spreadsheet correspond: each play has at most one row,
\* and a row exactly when it has a key
RowsMatchKeys(ss) ==
    \A k \in 1..MaxT :
        /\ Count(ss.log, RowOfPlay(k)) <= 1
        /\ Count(ss.log, RowOfPlay(k)) = Count(ss.dedupe, KeyOfPlay(k))

\* two consecutive complete passes, the second returned just now, with the
\* dedupe section within the window the second pass read
TwoCompletePasses ==
    /\ pass["ui"].pc = "returned"
    /\ obs.prior.complete
    /\ RowsMatchKeys(obs.prior.entry)
    /\ Len(obs.entry["ui"].dedupe) <= DedupeReadRows

\* C2: when two consecutive complete passes of a tenant fetch overlapping
\* sets of plays and the dedupe window is not exceeded, the log afterwards
\* holds exactly one row for each play that either pass fetched.
OverlappingPassesLogOnce ==
    TwoCompletePasses
        => \A k \in FetchedPlays(obs.prior.items) \cup FetchedPlays(pass["ui"].items) :
               Count(store[pass["ui"].tenant].log, RowOfPlay(k)) = 1

\* the second pass fetched again a play that the first had fetched, and a
\* new one
OverlappingPassesWitness ==
    /\ TwoCompletePasses
    /\ FetchedPlays(obs.prior.items) \cap FetchedPlays(pass["ui"].items) # {}
    /\ FetchedPlays(pass["ui"].items) \ FetchedPlays(obs.prior.items) # {}
    /\ CursorOf(obs.entry["ui"]) > 0

\* the first pass of the scenario has returned: cursor 0, nothing logged,
\* the response holds the plays at T1 < T2 < T3
ScenarioFirstPass ==
    /\ pass["ui"].pc = "returned"
    /\ read_app_state(obs.entry["ui"]).last_synced_after_ts = "0"
    /\ obs.entry["ui"].log = <<>> /\ obs.entry["ui"].dedupe = <<>>
    /\ FetchedPlays(pass["ui"].items) = {1, 2, 3}

\* the second pass of the scenario has returned: it was entered with cursor
\* T3 and the three rows and keys, and the response holds T2, T3 and T4
ScenarioSecondPass ==
    /\ pass["ui"].pc = "returned"
    /\ read_app_state(obs.entry["ui"]).last_synced_after_ts = Str(TimeMs(3))
    /\ Len(obs.entry["ui"].log) = 3 /\ Len(obs.entry["ui"].dedupe) = 3
    /\ \A k \in {1, 2, 3} : /\ Count(obs.entry["ui"].log, RowOfPlay(k)) = 1
                            /\ Count(obs.entry["ui"].dedupe, KeyOfPlay(k)) = 1
    /\ FetchedPlays(pass["ui"].items) = {2, 3, 4}

\* C5: from cursor 0 and an empty log, a pass that fetches T1 < T2 < T3 logs
\* three rows and sets the cursor to T3; the next pass, entered with cursor
\* T3 and fetching T2, T3 and a new T4, appends exactly one row (T4) and
\* exactly one dedupe key and sets the cursor to T4.
TwoPassScenario ==
    LET ss == store[pass["ui"].tenant]
        state == read_app_state(ss)
    IN /\ ScenarioFirstPass
            => /\ Len(ss.log) = 3 /\ Len(ss.dedupe) = 3
               /\ \A k \in {1, 2, 3} : Count(ss.log, RowOfPlay(k)) = 1
               /\ state.last_synced_after_ts = Str(TimeMs(3))
       /\ ScenarioSecondPass
            => /\ ss.log = Append(obs.entry["ui"].log, RowOfPlay(4))
               /\ ss.dedupe = Append(obs.entry["ui"].dedupe, KeyOfPlay(4))
               /\ state.last_synced_after_ts = Str(TimeMs(4))

\* the second pass of the scenario has returned after a first pass that
\* fetched T1, T2 and T3
TwoPassScenarioWitness ==
    /\ ScenarioSecondPass
    /\ obs.prior.complete
    /\ FetchedPlays(obs.prior.items) = {1, 2, 3}
    /\ obs.prior.entry.log = <<>>

----------------------------------------------------------------------------
(* Claims about the batch loop *)

\* the registry record of tenant t, as get_all_records reads it
RecordOf(reg, t) ==
    LET records == _read_registry_rows(reg)
    IN records[CHOOSE i \in 1..Len(records) : Strip(RowGet(records[i], "user_sheet_id")) = t]

\* t was enabled in the registry when the run started
EnabledAtStart(t) == Lower(RowGet(RecordOf(obs.run_registry, t), "enabled")) = "true"

\* t's stored credential decrypts under the deployment's key to the refresh
\* token the provider holds for the account
ValidCredentials(t) ==
    LET r == decrypt_refresh_token(FERNET_KEY, read_app_state(store[t]).refresh_token_enc)
    IN r.ok /\ r.value = provider[t].refresh_token

\* no external call made for t has failed in this run
Undisturbed(t) == t \notin obs.pass_faults /\ t \notin obs.write_faults

\* sync_all_enabled_users has ended after its loop had started
RunEnded == batch.pc \in {"finished", "aborted"}

\* t has been synced by this run: its status row says so
SyncedNow(t) ==
    /\ t \in obs.returned
    /\ RowGet(RecordOf(registry, t), "last_sync_at") = now_utc_iso(now)
    /\ RowGet(RecordOf(registry, t), "last_error") = ""

\* C3: in one run over enabled tenants A and B, if A's pass raises, B's pass
\* is still executed and its results are written; afterwards A's last_error
\* is the failure text and B's is empty, whichever comes first in the registry.
FailureIsolation ==
    RunEnded =>
        \A a \in Tenants, b \in Tenants :
            (/\ a # b /\ EnabledAtStart(a) /\ EnabledAtStart(b)
             /\ obs.raised[a] # None
             /\ ValidCredentials(b) /\ Undisturbed(b))
            => /\ RowGet(RecordOf(registry, a), "last_error") = obs.raised[a]
               /\ obs.raised[a] # ""
               /\ SyncedNow(b)

\* C4: once the loop has started, the failure of an external call made while
\* handling a tenant, the status writes included, does not terminate
\* sync_all_enabled_users, and it ends up in that tenant's last_error.
NothingEscapesTenantBoundary ==
    /\ batch.pc # "aborted"
    /\ batch.pc = "finished"
         => \A t \in obs.pass_faults \cup obs.write_faults :
                RowGet(RecordOf(registry, t), "last_error") # ""

\* no external call of the run has failed
FaultFreeRun == obs.pass_faults = {} /\ obs.write_faults = {}

----------------------------------------------------------------------------
(* Claims about the dedupe window across passes *)

\* C11: in every state reached by sequential complete passes of one tenant
\* in which the dedupe section has held no more keys than the window, no
\* dedupe key occurs twice in the section and no play has more than one log
\* row, also when the provider returns the same play twice in one response.
AtMostOnceWithinWindow ==
    (/\ ~obs.failed /\ pass["ui"].pc # "raised"
     /\ Len(store["sheetA"].dedupe) <= DedupeReadRows)
    => \A k \in 1..MaxT :
           /\ Count(store["sheetA"].dedupe, KeyOfPlay(k)) <= 1
           /\ Count(store["sheetA"].log, RowOfPlay(k)) <= 1

----------------------------------------------------------------------------
(* Claims about the registry *)

\* the cell of data row i in the column named key, "" when the row is short
CellOf(reg, i, key) ==
    LET c == ColumnOf(REGISTRY_HEADERS, key)
    IN IF c <= Len(reg.rows[i]) THEN reg.rows[i][c] ELSE ""

\* the data rows of reg whose id is t
RowsOf(reg, t) == {i \in 1..Len(reg.rows) : Strip(CellOf(reg, i, "user_sheet_id")) = t}

\* the cells in which the registry after the call differs from the one before
ChangedCells(before, after) ==
    {<<i, key>> \in (1..Len(before.rows)) \X SeqToSet(REGISTRY_HEADERS) :
        i > Len(after.rows) \/ CellOf(after, i, key) # CellOf(before, i, key)}

\* no row holds more cells than the header row
NoStrayCells(reg) == \A i \in 1..Len(reg.rows) : Len(reg.rows[i]) <= Len(REGISTRY_HEADERS)

\* C12: ensure_registry_entry(t) on a registry without a row for t appends
\* one row <<t, "false", now, now, "", "">>; on a registry with a row for t
\* it changes only that row's last_seen_at and adds no row; after any
\* sequence of such calls there is one row per tenant id.
RegistryUpsert ==
    (call.fn = "registry" /\ call.op = "ensure")
    => LET t == call.t
           now_iso == now_utc_iso(call.clock)
       IN /\ RowsOf(call.before, t) = {}
               => call.reg.rows = Append(call.before.rows,
                                         <<t, "false", now_iso, now_iso, "", "">>)
          /\ RowsOf(call.before, t) # {}
               => /\ Len(call.reg.rows) = Len(call.before.rows)
                  /\ ChangedCells(call.before, call.reg)
                        \subseteq (RowsOf(call.before, t) \X {"last_seen_at"})
                  /\ \A i \in RowsOf(call.reg, t) : CellOf(call.reg, i, "last_seen_at") = now_iso
                  /\ NoStrayCells(call.reg)
          /\ \A u \in Tenants : Cardinality(RowsOf(call.reg, u)) <= 1
          /\ Cardinality(RowsOf(call.reg, t)) = 1
          /\ call.reg.headers = REGISTRY_HEADERS

\* a later upsert of a tenant whose row an earlier call had created, with
\* another tenant's row in the registry
RegistryUpsertWitness ==
    /\ call.fn = "registry" /\ call.op = "ensure"
    /\ RowsOf(call.before, call.t) # {}
    /\ Len(call.reg.rows) = 2
    /\ \E i \in RowsOf(call.reg, call.t) :
          CellOf(call.reg, i, "created_at") # CellOf(call.reg, i, "last_seen_at")

\* C13: after set_registry_enabled(t, b) returns, whether or not a row for t
\* existed, the registry has exactly one row for t, its enabled column says
\* b, and the rows of other tenants are unchanged.
RegistrySetEnabled ==
    (call.fn = "registry" /\ call.op = "enable")
    => /\ Cardinality(RowsOf(call.reg, call.t)) = 1
       /\ \A i \in RowsOf(call.reg, call.t) :
             CellOf(call.reg, i, "enabled") = (IF call.flag THEN "true" ELSE "false")
       /\ \A i \in 1..Len(call.before.rows) :
             i \notin RowsOf(call.before, call.t)
                => /\ i <= Len(call.reg.rows)
                   /\ \A key \in SeqToSet(REGISTRY_HEADERS) :
                         CellOf(call.reg, i, key) = CellOf(call.before, i, key)
       /\ Len(call.reg.rows) = Len(call.before.rows)
                                  + (IF RowsOf(call.before, call.t) = {} THEN 1 ELSE 0)

\* the switch was turned on for a tenant without a row, next to the row of
\* another tenant
RegistrySetEnabledWitness ==
    /\ call.fn = "registry" /\ call.op = "enable" /\ call.flag
    /\ RowsOf(call.before, call.t) = {}
    /\ Len(call.before.rows) = 1
    /\ \A i \in RowsOf(call.reg, call.t) : CellOf(call.reg, i, "enabled") = "true"

\* C19: no operation (ensure_registry_entry, set_registry_enabled, the
\* batch's status write) removes a registry row or changes its user_sheet_id:
\* the tenant ids in the registry only grow.
TenantsNeverDeleted ==
    call.fn = "registry"
    => /\ Len(call.reg.rows) >= Len(call.before.rows)
       /\ \A i \in 1..Len(call.before.rows) :
             /\ CellOf(call.reg, i, "user_sheet_id") = CellOf(call.before, i, "user_sheet_id")
             /\ CellOf(call.reg, i, "user_sheet_id") # ""

\* a status write was made to a registry of two tenants
TenantsNeverDeletedWitness ==
    /\ call.fn = "registry" /\ call.op = "status"
    /\ Len(call.reg.rows) = 2
    /\ call.reg # call.before

----------------------------------------------------------------------------
(* Claims about the rows the batch visits and writes *)

\* the ids of the rows of reg that are enabled and have an id, in row order
RECURSIVE EnabledIds(_)
EnabledIds(records) ==
    IF records = <<>> THEN <<>>
    ELSE LET row == Head(records)
             id == Strip(RowGet(row, "user_sheet_id"))
         IN (IF Lower(RowGet(row, "enabled")) = "true" /\ id # "" THEN <<id>> ELSE <<>>)
            \o EnabledIds(Tail(records))

\* C14: one run of sync_all_enabled_users starts a pass for exactly the rows
\* whose enabled flag is true and whose id is not empty, each once, in row
\* order; a tenant whose flag is false is not synced, and neither its row
\* nor its store is written by the run.
BatchVisitsEnabledInOrder ==
    RunEnded
    => /\ obs.started = EnabledIds(_read_registry_rows(obs.run_registry))
       /\ \A t \in Tenants :
             ~EnabledAtStart(t)
                => /\ store[t] = obs.run_store[t]
                   /\ RecordOf(registry, t) = RecordOf(obs.run_registry, t)


\* C15: with no concurrent writer, the status write of the batch for tenant
\* t changes only last_sync_at and last_error of the row whose id is t; the
\* row's other columns and every other row are unchanged.
StatusWriteIsPartial ==
    [][registry' # registry
        => /\ batch.pc \in {"sync", "handler"}
           /\ registry'.headers = registry.headers
           /\ Len(registry'.rows) = Len(registry.rows)
           /\ NoStrayCells(registry')
           /\ ChangedCells(registry, registry')
                 \subseteq (RowsOf(registry, BatchTenant) \X {"last_sync_at", "last_error"})]_vars

\* the run has written the status of a synced tenant into its row, between
\* the rows of other tenants
StatusWriteWitness ==
    /\ batch.pc = "loop" /\ batch.idx = 3
    /\ registry # obs.run_registry
    /\ CellOf(registry, 2, "last_sync_at") = now_utc_iso(now)
    /\ CellOf(registry, 2, "last_error") = ""
    /\ CellOf(registry, 2, "enabled") = "TRUE"

----------------------------------------------------------------------------
(* Claims about the credential during a pass *)

\* the positions of a pass behind the write of a rotated token
BehindPersist ==
    {"user_id", "persist_user", "fetch", "no_items", "read_dedupe", "dedupe",
     "append_log", "append_dedupe", "final_write", "returned"}

\* the pass of p got a refresh token other than the one it sent, and is, or
\* failed, behind the write of it
RotatedAndBehindPersist(p) ==
    /\ \/ pass[p].pc \in BehindPersist
       \/ pass[p].pc = "raised" /\ pass[p].raised_at \in BehindPersist
    /\ pass[p].tokens.refresh_token # pass[p].refresh_token

----------------------------------------------------------------------------
(* AppState key set *)

AppStateKeys == {APP_STATE_DEFAULTS[i][1] : i \in 1..Len(APP_STATE_DEFAULTS)}

\* the value read_app_state is documented to give for a key no row holds
DocumentedDefault(key) ==
    IF key = "enabled" THEN FALSE
    ELSE IF key = "timezone" THEN "UTC"
    ELSE IF key = "last_synced_after_ts" THEN "0"
    ELSE ""

\* C17: read_app_state returns a value for each of the eight keys whatever
\* rows the state section holds, the documented default for each key no row
\* holds; after every write_app_state the state section holds all eight keys.
AppStateKeySet ==
    /\ (call.fn = "store" /\ call.op = "read") =>
          /\ DOMAIN call.res = AppStateKeys
          /\ \A key \in AppStateKeys :
                key \notin DictKeys(call.before.state) =>
                    call.res[key] = DocumentedDefault(key)
    /\ (call.fn = "store" /\ call.op = "write") =>
          AppStateKeys \subseteq DictKeys(call.ss.state)

\* a read of a section that lacks keys, and a write to one
AppStateKeySetWitness ==
    /\ call.fn = "store" /\ call.op = "write"
    /\ call.before.state # <<>>
    /\ ~(AppStateKeys \subseteq DictKeys(call.before.state))
    /\ \E key \in DictKeys(call.before.state) : key \notin AppStateKeys
    /\ AppStateKeys \subseteq DictKeys(call.ss.state)

----------------------------------------------------------------------------
(* The log is append-only *)

IsPrefix(a, b) == Len(a) <= Len(b) /\ SubSeq(b, 1, Len(a)) = a

PassLogAppendOnly ==
    [][\A t \in Tenants : IsPrefix(store[t].log, store'[t].log)]_vars


----------------------------------------------------------------------------
(* A pass that accepts nothing *)

Passes == DOMAIN pass

\* the pass returned and accepted no item
AcceptedNothing(p) == pass[p].pc = "returned" /\ pass[p].new_log_rows = <<>>

\* C20: a pass that accepts nothing, because nothing was returned or because
\* every item was a duplicate or skipped, stamps updated_at, clears
\* last_error and writes nothing else; the written keys are the same in both
\* cases.
NothingAcceptedWrites ==
    \A p \in Passes :
        AcceptedNothing(p) => SeqToSet(pass[p].written) = {"updated_at", "last_error"}

\* the parts of the same statement apart from last_error: updated_at is
\* stamped, the cursor is not written
NothingAcceptedFrame ==
    \A p \in Passes :
        AcceptedNothing(p) =>
            /\ "updated_at" \in SeqToSet(pass[p].written)
            /\ "last_synced_after_ts" \notin SeqToSet(pass[p].written)
            /\ pass[p].new_dedupe_keys = <<>>

\* both cases happen: nothing returned, and everything returned a duplicate
NothingReturned == \E p \in Passes : AcceptedNothing(p) /\ pass[p].items = <<>>
AllDuplicates ==
    \E p \in Passes :
        /\ AcceptedNothing(p) /\ pass[p].items # <<>>
        /\ SeqToSet(pass[p].written) = {"updated_at", "last_error"}


----------------------------------------------------------------------------
(* Interrupted passes *)

\* C21: when a pass is interrupted by a raised error before its final state
\* write, the tenant's AppState (all eight keys) equals its value when the
\* pass began.
CrashLeavesAppState ==
    pass["ui"].pc = "raised"
        => read_app_state(store[pass["ui"].tenant]) = read_app_state(obs.entry["ui"])

\* the keys of the AppState that differ between two spreadsheets
AppStateDiff(a, b) == {key \in AppStateKeys : read_app_state(a)[key] # read_app_state(b)[key]}

\* what an interrupted pass may have changed of the AppState: the rotated
\* credential and the account id, each written as soon as it is known
CrashLeavesAllButCredentials ==
    pass["ui"].pc = "raised"
        => AppStateDiff(store[pass["ui"].tenant], obs.entry["ui"])
               \subseteq {"refresh_token_enc", "spotify_user_id"}

\* C22: when a pass of a tenant was interrupted at any point and the next
\* pass runs to completion against a provider returning the same plays,
\* the log holds each of these plays exactly once.
CrashRecoveryLogsOnce ==
    (/\ pass["ui"].pc = "returned"
     /\ obs.failed
     /\ Len(obs.entry["ui"].dedupe) <= DedupeReadRows)
        => \A k \in FetchedPlays(pass["ui"].items) :
               Count(store[pass["ui"].tenant].log, RowOfPlay(k)) = 1


----------------------------------------------------------------------------
(* The order of the steps of a pass *)

\* the place of each step in the order of sync_single_user
StepRank(pc) ==
    CASE pc = "open" -> 0
      [] pc = "prepare" -> 1
      [] pc = "read_state" -> 2
      [] pc = "decrypt" -> 3
      [] pc = "refresh" -> 4
      [] pc = "persist_token" -> 5
      [] pc = "user_id" -> 6
      [] pc = "persist_user" -> 7
      [] pc = "fetch" -> 8
      [] pc = "no_items" -> 9
      [] pc = "read_dedupe" -> 9
      [] pc = "dedupe" -> 10
      [] pc = "append_log" -> 11
      [] pc = "append_dedupe" -> 12
      [] pc = "final_write" -> 13
      [] OTHER -> 14

Running == {"open", "prepare", "read_state", "decrypt", "refresh", "persist_token", "user_id",
            "persist_user", "fetch", "no_items", "read_dedupe", "dedupe", "append_log",
            "append_dedupe", "final_write"}

\* the step that the pass of p takes from this state to the next
StepOf(p) == IF pass[p].pc \in Running /\ pass'[p] # pass[p] THEN pass[p].pc ELSE "none"

\* C23: the steps of a pass occur in the order schema ensure, state read,
\* token refresh, history fetch, dedupe-window read, log append, dedupe-key
\* append, final state write; rows and keys are appended only behind the
\* token refresh and the history fetch of the same pass, and the cursor is
\* written only by the final write, behind both appends.
StepOrder ==
    [][\A p \in Procs :
         LET t == pass[p].tenant
         IN /\ (pass[p].pc \in Running /\ pass'[p].pc # pass[p].pc)
                  => /\ pass'[p].pc \in Running \cup {"returned", "raised"}
                     /\ StepRank(pass'[p].pc) > StepRank(pass[p].pc)
            /\ (pass[p].pc \in Running /\ store'[t].log # store[t].log)
                  => /\ StepOf(p) = "append_log"
                     /\ pass[p].tokens.access_token # ""
                     /\ pass[p].items # <<>>
            /\ (pass[p].pc \in Running /\ store'[t].dedupe # store[t].dedupe)
                  => /\ StepOf(p) = "append_dedupe"
                     /\ Len(store[t].log) >= Len(pass[p].new_log_rows)
                     /\ pass[p].tokens.access_token # ""
                     /\ pass[p].items # <<>>
            /\ (pass[p].pc \in Running /\ CursorOf(store'[t]) # CursorOf(store[t]))
                  => /\ StepOf(p) = "final_write"
                     /\ pass[p].new_log_rows # <<>>
                     /\ IsPrefix(pass[p].new_dedupe_keys,
                                 [i \in 1..Len(pass[p].new_dedupe_keys) |->
                                     store[t].dedupe[Len(store[t].dedupe)
                                                     - Len(pass[p].new_dedupe_keys) + i]])
    ]_vars

\* a pass that took every step: it wrote the account id, appended rows and
\* keys and wrote the cursor
StepOrderWitness ==
    /\ pass["ui"].pc = "returned"
    /\ pass["ui"].new_log_rows # <<>>
    /\ read_app_state(obs.entry["ui"]).spotify_user_id = ""
    /\ CursorOf(store[pass["ui"].tenant]) > CursorOf(obs.entry["ui"])


----------------------------------------------------------------------------
(* A pass without a stored credential *)

\* the pass run from the UI was entered with an empty refresh_token_enc
EnteredWithoutCredential ==
    /\ pass["ui"].pc # "idle"
    /\ read_app_state(obs.entry["ui"]).refresh_token_enc = ""

\* C24: when AppState.refresh_token_enc is empty the pass raises before it
\* issues a token-refresh, profile or history request, and the log section,
\* the dedupe section and last_synced_after_ts are as before the pass.
MissingCredentialFailsFast ==
    EnteredWithoutCredential
        => LET ss == store[pass["ui"].tenant]
           IN /\ pass["ui"].pc \in {"open", "prepare", "read_state", "raised"}
              /\ pass["ui"].pc = "raised"
                    => pass["ui"].raised_at \in {"open", "prepare", "read_state"}
              /\ pass["ui"].tokens.access_token = ""
              /\ pass["ui"].spotify_user_id = "" /\ pass["ui"].items = <<>>
              /\ ss.log = obs.entry["ui"].log
              /\ ss.dedupe = obs.entry["ui"].dedupe
              /\ read_app_state(ss).last_synced_after_ts
                    = read_app_state(obs.entry["ui"]).last_synced_after_ts

\* the pass read the state and raised for the missing credential
MissingCredentialFailsFastWitness ==
    /\ EnteredWithoutCredential
    /\ pass["ui"].pc = "raised" /\ pass["ui"].raised_at = "read_state"
    /\ pass["ui"].exc_kind = "RuntimeError"
    /\ upstream[pass["ui"].tenant] # <<>>


----------------------------------------------------------------------------
(* The account id *)

\* the pass of the UI has requested the profile: it is about to write the
\* id, or the request failed
RequestedProfile ==
    \/ pass["ui"].pc = "persist_user"
    \/ pass["ui"].pc = "raised" /\ pass["ui"].raised_at \in {"user_id", "persist_user"}

\* the pass of the UI is behind the step that resolves the account id
BehindUserId ==
    pass["ui"].pc \in {"fetch", "no_items", "read_dedupe", "dedupe", "append_log",
                       "append_dedupe", "final_write", "returned"}
    \/ (pass["ui"].pc = "raised"
         /\ pass["ui"].raised_at \in {"fetch", "no_items", "read_dedupe", "dedupe",
                                       "append_log", "append_dedupe", "final_write"})

\* the dedupe keys of the pass are built from the id and the accepted items
KeysUse(id) ==
    \A i \in 1..Len(pass["ui"].new_dedupe_keys) :
        \E j \in 1..Len(pass["ui"].items) :
            pass["ui"].new_dedupe_keys[i]
                = _make_dedupe_key(id, pass["ui"].items[j].played_at,
                                   pass["ui"].items[j].track_id)

\* C25: a pass requests the profile exactly when AppState.spotify_user_id is
\* empty at its start; behind that request AppState.spotify_user_id is the
\* id the provider returned and the pass builds its dedupe keys from it, so
\* that a later pass does not request the profile again.
AccountIdResolution ==
    LET t == pass["ui"].tenant
        known == read_app_state(obs.entry["ui"]).spotify_user_id
    IN /\ RequestedProfile => known = ""
       /\ BehindUserId
            => /\ known = "" => /\ read_app_state(store[t]).spotify_user_id
                                     = provider[t].account_id
                                /\ pass["ui"].spotify_user_id = provider[t].account_id
               /\ known # "" => /\ read_app_state(store[t]).spotify_user_id = known
                                /\ pass["ui"].spotify_user_id = known
               /\ KeysUse(pass["ui"].spotify_user_id)
       /\ (obs.prior.complete /\ pass["ui"].pc # "idle")
            => known # "" /\ ~RequestedProfile

\* a pass that resolved the id was followed by one that accepted plays
\* under the stored id
AccountIdResolutionWitness ==
    /\ obs.prior.complete
    /\ read_app_state(obs.prior.entry).spotify_user_id = ""
    /\ pass["ui"].pc = "returned"
    /\ pass["ui"].new_dedupe_keys # <<>>
    /\ pass["ui"].spotify_user_id = "u1"


----------------------------------------------------------------------------
(* What a pass commits *)

\* an item holds the two fields the pass needs
Complete(item) == item.played_at \notin {None, ""} /\ item.track_id \notin {None, ""}

\* the key the pass of the UI gives an item
PassKey(item) == _make_dedupe_key(pass["ui"].spotify_user_id, item.played_at, item.track_id)

\* the items the pass of the UI accepts, in the order of the response
Accepted ==
    SelectSeq(pass["ui"].items,
              LAMBDA item : Complete(item) /\ PassKey(item) \notin pass["ui"].recent_keys)

\* the greatest played-at of a sequence of items, 0 for none
MaxPlayedAt(items) ==
    IF items = <<>> THEN 0
    ELSE CHOOSE m \in {played_at_ms(items[i].played_at) : i \in 1..Len(items)} :
             \A i \in 1..Len(items) : played_at_ms(items[i].played_at) <= m

\* the pass of the UI returned and accepted at least one item
Committed == pass["ui"].pc = "returned" /\ Accepted # <<>>

\* C26: a pass that accepts n >= 1 items appends exactly n rows to the log
\* and exactly n keys to the dedupe section, the i-th key being the key of
\* the play of the i-th row, and writes as cursor the greatest played-at of
\* the accepted items when that exceeds the previous cursor.
CommitCorrespondence ==
    Committed
        => LET ss == store[pass["ui"].tenant]
               before == obs.entry["ui"]
               n == Len(Accepted)
               tz == IF pass["ui"].state.timezone = "" THEN "UTC"
                     ELSE pass["ui"].state.timezone
           IN /\ Len(ss.log) = Len(before.log) + n
              /\ Len(ss.dedupe) = Len(before.dedupe) + n
              /\ IsPrefix(before.log, ss.log) /\ IsPrefix(before.dedupe, ss.dedupe)
              /\ \A i \in 1..n :
                    /\ ss.log[Len(before.log) + i] = LogRow(Accepted[i], tz)
                    /\ ss.dedupe[Len(before.dedupe) + i] = PassKey(Accepted[i])
              /\ MaxPlayedAt(Accepted) > CursorOf(before)
                    => CursorOf(ss) = MaxPlayedAt(Accepted)

\* a pass appended two rows behind an earlier row and moved the cursor on
CommitCorrespondenceWitness ==
    /\ Committed
    /\ Len(Accepted) >= 2
    /\ obs.entry["ui"].log # <<>>
    /\ Len(Accepted) < Len(pass["ui"].items)
    /\ CursorOf(store[pass["ui"].tenant]) > CursorOf(obs.entry["ui"])
    /\ CursorOf(obs.entry["ui"]) > 0

\* the response of the pass of the UI without the items that lack a field
CompleteItems == SelectSeq(pass["ui"].items, Complete)

\* C27: an item that lacks played_at or a track id gives no log row and no
\* dedupe key and has no influence on the cursor, and the other items of the
\* response are processed all the same: the pass accepts what it would
\* accept of the response without these items.
IncompleteItemsSkipped ==
    pass["ui"].pc \in {"append_log", "append_dedupe", "final_write", "returned"}
        => LET without == DedupeLoop(LoopStart, CompleteItems, pass["ui"].spotify_user_id,
                                     pass["ui"].recent_keys, pass["ui"].state.timezone)
           IN /\ pass["ui"].new_log_rows = without.rows
              /\ pass["ui"].new_dedupe_keys = without.keys
              /\ pass["ui"].max_played_at_ms = without.max
              /\ Len(pass["ui"].new_log_rows) = Len(Accepted)
              /\ \A i \in 1..Len(pass["ui"].items) :
                    ~Complete(pass["ui"].items[i])
                        => \A j \in 1..Len(pass["ui"].new_log_rows) :
                               pass["ui"].new_log_rows[j][4] # pass["ui"].items[i].track_id
                               \/ pass["ui"].new_dedupe_keys[j]
                                     # PassKey(pass["ui"].items[i])

\* a response that held both kinds of incomplete item, one of them ahead of
\* a play and one behind it, and the play was logged
IncompleteItemsSkippedWitness ==
    /\ pass["ui"].pc = "returned"
    /\ \E i, j, k \in 1..Len(pass["ui"].items) :
          /\ i < k /\ k < j
          /\ pass["ui"].items[i].played_at = None
          /\ pass["ui"].items[j].track_id = None
          /\ Complete(pass["ui"].items[k])
          /\ PassKey(pass["ui"].items[k]) \in SeqToSet(pass["ui"].new_dedupe_keys)
    /\ Len(store[pass["ui"].tenant].log) = Len(obs.entry["ui"].log) + Len(Accepted)


----------------------------------------------------------------------------
(* The query floor *)

\* the floor has been computed for the frame's cursor and lookback
FloorComputed == call.fn = "floor" /\ call.stage \in {"floor", "fetched"}

\* the cursor of the frame as a number, when it is one
FrameCursor == ParseInt(call.last_synced_after_ts)

\* the lookback window in milliseconds
FrameWindow == call.lookback_minutes * MsPerMinute

\* C28 as stated: for every stored cursor value and every lookback, the
\* instant passed to the history fetch is the cursor minus the lookback
\* window.
QueryFloorIsCursorMinusLookback ==
    (FloorComputed /\ FrameCursor.ok)
        => call.res.some /\ call.res.value = FrameCursor.value - FrameWindow

\* C28: for a stored cursor greater than the lookback window the instant
\* passed to the history fetch is the cursor minus the window; for a
\* positive cursor within the window it is 0; for a cursor that is 0,
\* negative or not a number no instant is passed at all.
QueryFloor ==
    FloorComputed
        => /\ (FrameCursor.ok /\ FrameCursor.value > FrameWindow)
                 => call.res = SomeInt(FrameCursor.value - FrameWindow)
           /\ (FrameCursor.ok /\ FrameCursor.value > 0 /\ FrameCursor.value <= FrameWindow)
                 => call.res = SomeInt(0)
           /\ (~FrameCursor.ok \/ FrameCursor.value <= 0) => call.res = NoInt

\* a cursor within the window, one beyond it whose floor cuts off the
\* oldest play, and the request was made
QueryFloorWitness ==
    /\ FloorComputed /\ call.stage = "fetched"
    /\ FrameCursor.ok /\ FrameCursor.value > FrameWindow /\ FrameWindow > 0
    /\ call.res.value = FrameCursor.value - FrameWindow
    /\ call.items # <<>> /\ Len(call.items) < MaxT

\* the floor of a positive cursor within the window
QueryFloorHeldAtZero ==
    /\ FloorComputed
    /\ FrameCursor.ok /\ FrameCursor.value > 0 /\ FrameCursor.value < FrameWindow
    /\ call.res = SomeInt(0)

\* the same floor in a pass: the request of a pass is made with the floor
\* of the cursor the pass read
PassQueryFloor ==
    \A p \in Procs :
        pass[p].pc \in {"no_items", "read_dedupe", "dedupe", "append_log", "append_dedupe",
                        "final_write", "returned"}
            => LET cursor == ParseInt(pass[p].state.last_synced_after_ts)
                   floor == IF cursor.ok /\ cursor.value > 0
                            THEN SomeInt(Max(0, cursor.value - LookbackMinutes * MsPerMinute))
                            ELSE NoInt
               IN \A i \in 1..Len(pass[p].items) :
                      pass[p].items[i].played_at # None /\ floor.some
                          => played_at_ms(pass[p].items[i].played_at) > floor.value


----------------------------------------------------------------------------
(* The batch is sequential *)

\* the pass of t has ended and its status write, of the success or of the
\* failure, is in the registry
Settled(t) ==
    /\ t \in obs.returned \/ obs.raised[t] # None
    /\ (t \in obs.returned /\ t \notin obs.write_faults) => SyncedNow(t)
    /\ (t \in obs.returned /\ t \in obs.write_faults)
          => RowGet(RecordOf(registry, t), "last_error") = "APIError: registry update"
    /\ obs.raised[t] # None => RowGet(RecordOf(registry, t), "last_error") = obs.raised[t]

\* C29: within one run of sync_all_enabled_users at most one tenant's pass
\* is in progress at any time, and the status write for a tenant is
\* completed before the pass of the next tenant begins.
SequentialBatch ==
    LET n == Len(obs.started)
    IN /\ \A i \in 1..n : (i < n \/ batch.pc \in {"loop", "finished"})
                                => Settled(obs.started[i])
       /\ pass["worker"].pc # "idle"
            => /\ batch.pc = "sync" /\ n >= 1
               /\ pass["worker"].tenant = obs.started[n]
               /\ \A i \in 1..(n - 1) : obs.started[i] # obs.started[n]
       /\ batch.pc \in {"handler", "loop", "finished", "aborted", "idle", "failed_start"}
            => pass["worker"].pc = "idle"

\* the second pass of a run is in progress after a first that raised
SequentialBatchWitness ==
    /\ Len(obs.started) = 2
    /\ pass["worker"].pc = "fetch"
    /\ obs.raised[obs.started[1]] # None
    /\ Settled(obs.started[1])

\* the same after a first pass that returned
SequentialAfterSuccess ==
    /\ Len(obs.started) = 2
    /\ pass["worker"].pc = "fetch"
    /\ SyncedNow(obs.started[1])


----------------------------------------------------------------------------
(* Retries *)

\* the steps of a pass that issue a provider request
RequestSteps == {"refresh", "user_id", "fetch"}

\* within a pass a provider request is issued once, and a pass that raised
\* takes no further step
NoInPassRetry ==
    [][\A p \in Procs :
         /\ (pass[p].pc \in RequestSteps /\ pass'[p] # pass[p])
               => /\ pass'[p].pc \in Running \cup {"raised"}
                  /\ StepRank(pass'[p].pc) > StepRank(pass[p].pc)
         /\ (pass[p].pc = "raised" /\ pass'[p] # pass[p]) => pass'[p] = IdlePass
    ]_vars

\* a pass that raised has changed the enabled flag neither of the registry
\* nor of the tenant's own state
FailedPassKeepsEnabled ==
    \A t \in Tenants :
        obs.raised[t] # None
            => /\ RowGet(RecordOf(registry, t), "enabled")
                     = RowGet(RecordOf(obs.run_registry, t), "enabled")
               /\ read_app_state(store[t]).enabled = read_app_state(obs.run_store[t]).enabled

\* when the loop of the next run is at the row of a tenant whose pass
\* failed in the run before, it starts a pass for it
RetryWhenReached ==
    [][(/\ batch.pc = "loop" /\ batch.idx <= Len(batch.rows)
        /\ BatchTenant \in obs.failed_before
        /\ batch' # batch)
          => /\ batch'.pc = "sync"
             /\ pass'["worker"] = EnterPass(BatchTenant)]_vars

\* the run has started a pass for every tenant whose pass failed in the run
\* before
RetriedAll == \A t \in obs.failed_before : t \in SeqToSet(obs.started)

\* C30: within a pass each provider request is issued at most once and its
\* failure ends the pass; a failed pass does not change the tenant's
\* enabled flag, so the next batch run starts a new pass for that tenant.
RetryOnNextRun ==
    /\ FailedPassKeepsEnabled
    /\ RunEnded => RetriedAll

\* a tenant whose pass failed in one run is synced by the next
RetrySucceeds ==
    /\ batch.pc = "finished"
    /\ \E t \in obs.failed_before : SyncedNow(t)


----------------------------------------------------------------------------
(* The lost update *)

\* the place of an event in the order of the frame, 0 when it has not happened
PlaceOf(w, step) ==
    IF \E i \in 1..Len(call.order) : call.order[i] = <<w, step>>
    THEN CHOOSE i \in 1..Len(call.order) : call.order[i] = <<w, step>>
    ELSE 0

BothWritten == call.fn = "race" /\ \A w \in Writers : call.w[w].pc = "done"

\* y wrote between the read and the write of x
Overlapped(x, y) ==
    /\ BothWritten
    /\ PlaceOf(x, "read") < PlaceOf(y, "write")
    /\ PlaceOf(y, "write") < PlaceOf(x, "write")

\* the state section holds each of the writer's updates
Holds(w) ==
    \A i \in 1..Len(call.w[w].updates) :
        DictGet(store[RaceTenant].state, call.w[w].updates[i][1], None)
            = call.w[w].updates[i][2]

\* C31: write_app_state reads the whole section and then rewrites the whole
\* section, so when a second writer of the same tenant, updating other keys,
\* writes between the two steps, the section afterwards holds for these keys
\* what the first writer had read: the second writer's update is absent.
\* Writers that do not overlap both find their updates in the section.
LostUpdate ==
    \A x \in Writers, y \in Writers :
        /\ Overlapped(x, y)
              => /\ Holds(x)
                 /\ \A i \in 1..Len(call.w[y].updates) :
                       LET key == call.w[y].updates[i][1]
                       IN DictGet(store[RaceTenant].state, key, None)
                              = DictGet(DictWithDefaults(call.w[x].current, APP_STATE_DEFAULTS),
                                        key, None)
        /\ (BothWritten /\ x # y /\ PlaceOf(x, "write") < PlaceOf(y, "read"))
              => Holds(x) /\ Holds(y)

\* the button's flag is lost under the final write of a pass
LostUpdateWitness ==
    /\ Overlapped("final_write", "button")
    /\ ~Holds("button")
    /\ Holds("final_write")

\* the cursor a pass wrote is lost under the button's write
LostCursorWitness ==
    /\ Overlapped("button", "final_write")
    /\ ~Holds("final_write")
    /\ DictGet(store[RaceTenant].state, "last_synced_after_ts", None) = "0"


----------------------------------------------------------------------------
(* Overlapping passes of one tenant *)

\* the pass of the batch and the pass of the button have both returned, for
\* the same tenant
BothReturned ==
    /\ pass["worker"].pc = "returned" /\ pass["ui"].pc = "returned"
    /\ pass["worker"].tenant = pass["ui"].tenant

\* C32: nothing keeps a pass of the batch and a pass started by "Run sync
\* now" from running for the same tenant at the same time; when both accept
\* the same play, each having read the dedupe window before the other
\* appended its keys, both return without error and the log holds two rows
\* for that play.
OverlappingPassesLogTwice ==
    BothReturned
        => \A k \in 1..MaxT :
               (/\ RowOfPlay(k) \in SeqToSet(pass["worker"].new_log_rows)
                /\ RowOfPlay(k) \in SeqToSet(pass["ui"].new_log_rows))
                   => /\ Count(store[pass["ui"].tenant].log, RowOfPlay(k)) >= 2
                      /\ Count(store[pass["ui"].tenant].dedupe, KeyOfPlay(k)) >= 2

\* both passes are complete and error-free and the play is in the log twice
OverlappingPassesLogTwiceWitness ==
    /\ BothReturned
    /\ obs.run_store[pass["ui"].tenant].log = <<>>
    /\ Count(store[pass["ui"].tenant].log, RowOfPlay(1)) = 2
    /\ obs.pass_faults = {}


----------------------------------------------------------------------------
(* Plays outside the dedupe window *)

\* the key of play k is in the section the pass was entered with, and among
\* its DedupeReadRows most recently appended keys or not
KeyStored(k) == KeyOfPlay(k) \in SeqToSet(obs.entry["ui"].dedupe)
KeyInWindow(k) ==
    \E i \in 1..Len(obs.entry["ui"].dedupe) :
        /\ obs.entry["ui"].dedupe[i] = KeyOfPlay(k)
        /\ i > Len(obs.entry["ui"].dedupe) - DedupeReadRows

\* C33: when the key of a logged play is in the dedupe section but not
\* among the `limit` most recently appended keys and the provider returns
\* the play again, the pass accepts it and appends a second log row for it;
\* a play whose key is within the window gets no further row.
OutsideWindowLoggedAgain ==
    pass["ui"].pc = "returned"
        => \A k \in FetchedPlays(pass["ui"].items) :
               LET before == Count(obs.entry["ui"].log, RowOfPlay(k))
                   after == Count(store[pass["ui"].tenant].log, RowOfPlay(k))
               IN /\ (KeyStored(k) /\ ~KeyInWindow(k)) => after = before + 1
                  /\ KeyInWindow(k) => after = before

\* play 1 was logged once, its key had left the window, and it is in the
\* log twice
OutsideWindowWitness ==
    /\ pass["ui"].pc = "returned"
    /\ 1 \in FetchedPlays(pass["ui"].items)
    /\ KeyStored(1) /\ ~KeyInWindow(1)
    /\ Count(obs.entry["ui"].log, RowOfPlay(1)) = 1
    /\ Count(store[pass["ui"].tenant].log, RowOfPlay(1)) = 2
    /\ \E k \in FetchedPlays(pass["ui"].items) : KeyInWindow(k)


----------------------------------------------------------------------------
(* last_sync_at *)

\* the rows whose last_sync_at differs between two registries
SyncStampChanged(before, after) ==
    {i \in 1..Len(before.rows) : CellOf(before, i, "last_sync_at")
                                     # CellOf(after, i, "last_sync_at")}

\* C34: in an iteration of the batch a tenant's last_sync_at changes exactly
\* in the status write that follows a pass that returned, and that write
\* sets last_error to the empty string; the write of an iteration whose
\* pass raised changes last_error only.
SyncStampOnlyOnSuccess ==
    [][/\ SyncStampChanged(registry, registry') # {}
            => /\ batch.pc = "sync" /\ pass["worker"].pc = "returned"
               /\ SyncStampChanged(registry, registry') = {batch.idx}
               /\ CellOf(registry', batch.idx, "last_sync_at") = now_utc_iso(now)
               /\ CellOf(registry', batch.idx, "last_error") = ""
       /\ (batch.pc = "sync" /\ pass["worker"].pc = "returned" /\ batch'.pc = "loop")
            => SyncStampChanged(registry, registry') = {batch.idx}
       /\ (batch.pc = "handler" /\ registry' # registry)
            => /\ ChangedCells(registry, registry')
                     \subseteq (RowsOf(registry, BatchTenant) \X {"last_error"})
               /\ CellOf(registry', batch.idx, "last_error") = batch.exc
    ]_vars

\* one run in which a pass raised and a pass returned: the first row keeps
\* its old last_sync_at and holds the error, the second is stamped
SyncStampWitness ==
    /\ batch.pc = "finished" /\ Len(obs.started) = 2
    /\ obs.raised[obs.started[1]] # None
    /\ CellOf(registry, 1, "last_sync_at") = IsoText(0)
    /\ CellOf(registry, 1, "last_error") = obs.raised[obs.started[1]]
    /\ CellOf(registry, 2, "last_sync_at") = now_utc_iso(now)
    /\ CellOf(registry, 2, "last_error") = ""


\* ---------------------------------------------------------------------------
\* write_app_state: the frame of one write
\* ---------------------------------------------------------------------------
\* the key-value reading of the AppState rows: a later row of a repeated key
\* gives the key's value
AppStateReading(rows) == DictFrom(<<>>, rows)

\* C35: a write to AppState leaves the value of every key it does not name
\* unchanged, keys outside the eight documented ones included, and sets each
\* named key to exactly the given value.
WriteAppStateFrame ==
    (call.fn = "store" /\ call.op = "write") =>
        LET old == AppStateReading(call.before.state)
            new == AppStateReading(call.ss.state)
            named == AppStateReading(call.updates)
        IN /\ \A key \in DictKeys(named) :
                 /\ key \in DictKeys(new)
                 /\ DictGet(new, key, None) = DictGet(named, key, None)
           /\ \A key \in DictKeys(old) \ DictKeys(named) :
                 /\ key \in DictKeys(new)
                 /\ DictGet(new, key, None) = DictGet(old, key, None)

WriteAppStateFrameWitness ==
    /\ call.fn = "store" /\ call.op = "write"
    /\ DictGet(AppStateReading(call.before.state), "theme", None) = "dark"
    /\ DictGet(AppStateReading(call.before.state), "last_error", None) = "boom"
    /\ "last_error" \in DictKeys(call.updates)
    /\ DictGet(AppStateReading(call.ss.state), "theme", None) = "dark"
    /\ DictGet(AppStateReading(call.ss.state), "timezone", None) = "UTC"
    /\ DictGet(AppStateReading(call.ss.state), "last_error", None) = ""
    /\ DictGet(AppStateReading(call.ss.state), "enabled", None) = "true"


\* ---------------------------------------------------------------------------
\* set_registry_enabled: termination of the auto-create
\* ---------------------------------------------------------------------------
RowsCreated == Len(call.reg.rows) - Len(call.before.rows)

\* C36: set_registry_enabled(t, true) on a registry without a row for t
\* creates at most one row, and the nested call after the auto-create finds
\* the created row, for every id, ids with leading or trailing whitespace
\* included.
EnableCreatesOneRowAndFindsIt ==
    call.fn = "enable" =>
        /\ RowsCreated <= 1
        /\ (call.pc = "call" /\ call.depth >= 1) =>
               FindRow(_read_registry_rows(call.reg), call.t) # 0

\* for an id that str.strip leaves alone the nested call finds the row
EnableTerminatesForStrippedIds ==
    (call.fn = "enable" /\ call.t \in Tenants) =>
        /\ RowsCreated <= 1
        /\ call.depth <= 1
        /\ (call.pc = "call" /\ call.depth = 1) =>
               FindRow(_read_registry_rows(call.reg), call.t) # 0


\* ---------------------------------------------------------------------------
\* AppState last_error
\* ---------------------------------------------------------------------------
AppStateLastError(ss) == DictGet(AppStateReading(ss.state), "last_error", "")

\* C37: errors are recorded in the registry only: no step of a pass or of
\* the batch error handler writes a non-empty last_error to a tenant's
\* AppState; every step leaves the AppState last_error as it was or makes it
\* the empty string.
ErrorsInRegistryOnly ==
    [][\A t \in Tenants :
          AppStateLastError(store'[t]) \in {AppStateLastError(store[t]), ""}]_vars

ErrorsInRegistryOnlyWitness ==
    /\ batch.pc = "finished"
    /\ \E a \in Tenants, b \in Tenants :
         /\ obs.raised[a] # None
         /\ RowGet(RecordOf(registry, a), "last_error") = obs.raised[a]
         /\ AppStateLastError(store[a]) = OldError
         /\ b \in obs.returned
         /\ AppStateLastError(obs.run_store[b]) = OldError
         /\ AppStateLastError(store[b]) = ""


\* ---------------------------------------------------------------------------
\* _make_dedupe_key
\* ---------------------------------------------------------------------------
\* C38: the dedupe key is deterministic and injective: the same triple gives
\* the same string and different triples give different strings, components
\* that contain the separator or are empty included.
DedupeKeyInjective ==
    (call.fn = "key" /\ call.stage = "both") =>
        (call.kx = call.ky <=> call.x = call.y)

\* what the code gives: the same triple gives the same string, and triples of
\* separator-free strings with distinct components give distinct strings
DedupeKeyInjectiveWithoutSeparator ==
    (call.fn = "key" /\ call.stage = "both") =>
        /\ call.x = call.y => call.kx = call.ky
        /\ (\A i \in 1..3 : call.x[i] \in SeparatorFree /\ call.y[i] \in SeparatorFree)
              => (call.kx = call.ky => call.x = call.y)


\* ---------------------------------------------------------------------------
\* _compute_after_ms: range of the result
\* ---------------------------------------------------------------------------
\* C39: the 'after' value is never negative: for every stored cursor text
\* (0, negative, empty and non-numeric included) and every non-negative
\* lookback, _compute_after_ms returns no value exactly when the cursor is
\* not a positive integer, and otherwise an integer in 0..cursor.
AfterNeverNegative ==
    (FloorComputed /\ call.lookback_minutes >= 0) =>
        IF FrameCursor.ok /\ FrameCursor.value > 0
        THEN /\ call.res # NoInt
             /\ call.res.value \in 0..FrameCursor.value
        ELSE call.res = NoInt

AfterNeverNegativeWitness ==
    /\ call.fn = "floor" /\ call.stage = "fetched"
    /\ call.lookback_minutes > 0
    /\ FrameCursor.ok /\ FrameCursor.value > 0
    /\ FrameCursor.value - FrameWindow < 0
    /\ call.res # NoInt /\ call.res.value = 0

====
